---- MODULE Spec2Model ----
(***************************************************************************)
(* RISC-V simulator: parser -> decoder -> executor over a machine state,   *)
(* the Simulator model, and the controller's Run / Step / Reset handlers.  *)
(***************************************************************************)
EXTENDS Integers, Sequences, FiniteSets, TLC

(***************************************************************************)
(* 32-bit arithmetic.  A register value is an integer in                   *)
(* -2^31 .. 2^31 - 1.  JavaScript's ToInt32 (`x | 0`), ToUint32            *)
(* (`x >>> 0`) and the bitwise operators are computed on the two 16-bit    *)
(* halves of the two's-complement word, so no intermediate value leaves    *)
(* the 32-bit range.                                                       *)
(***************************************************************************)
Half == 65536

MaxInt32 == 2147483647

MinInt32 == (-MaxInt32) - 1

Int32 == MinInt32..MaxInt32

\* low and high 16-bit halves of the two's-complement word of x
Lo16(x) == x % Half

Hi16(x) == (x \div Half) % Half

\* the signed 32-bit integer whose word has halves hi, lo (each in 0..65535)
FromHalves(hi, lo) == (IF hi >= 32768 THEN hi - Half ELSE hi) * Half + lo

\* (a + b) | 0  for 32-bit a, b
AddWrap(a, b) ==
  LET lo == Lo16(a) + Lo16(b)
      hi == Hi16(a) + Hi16(b) + (lo \div Half)
  IN  FromHalves(hi % Half, lo % Half)

\* (a - b) | 0  for 32-bit a, b
SubWrap(a, b) ==
  LET lo == Lo16(a) - Lo16(b)
      hi == Hi16(a) - Hi16(b) + (lo \div Half)
  IN  FromHalves(hi % Half, lo % Half)

\* x | 0 for a value already held as a signed 32-bit word
ToInt32(x) == FromHalves(Hi16(x), Lo16(x))

\* bit i (0..31) of the word of x
Bit(x, i) == IF i < 16 THEN (Lo16(x) \div (2 ^ i)) % 2
                       ELSE (Hi16(x) \div (2 ^ (i - 16))) % 2

RECURSIVE SumBits(_, _, _)
\* value of bits lo..hi of the bit function b, bit lo weighing 1
SumBits(b, lo, hi) ==
  IF hi < lo THEN 0 ELSE b[lo] + 2 * SumBits(b, lo + 1, hi)

\* the signed 32-bit integer with the given bits
FromBits(b) == FromHalves(SumBits(b, 16, 31), SumBits(b, 0, 15))

BitAnd(a, b) == FromBits([i \in 0..31 |-> Bit(a, i) * Bit(b, i)])

BitOr(a, b) == FromBits([i \in 0..31 |-> IF Bit(a, i) + Bit(b, i) > 0 THEN 1 ELSE 0])

BitXor(a, b) == FromBits([i \in 0..31 |-> (Bit(a, i) + Bit(b, i)) % 2])

\* a << s, a >>> s (then | 0), a >> s, for s in 0..31
ShiftLeft(a, s) == FromBits([i \in 0..31 |-> IF i >= s THEN Bit(a, i - s) ELSE 0])

ShiftRightLogical(a, s) ==
  FromBits([i \in 0..31 |-> IF i + s <= 31 THEN Bit(a, i + s) ELSE 0])

ShiftRightArith(a, s) ==
  FromBits([i \in 0..31 |-> IF i + s <= 31 THEN Bit(a, i + s) ELSE Bit(a, 31)])

\* (a >>> 0) < (b >>> 0): comparison of the unsigned words
UnsignedLess(a, b) ==
  \/ Hi16(a) < Hi16(b)
  \/ Hi16(a) = Hi16(b) /\ Lo16(a) < Lo16(b)

(***************************************************************************)
(* Machine state.  The controller keeps a plain state object; the          *)
(* Simulator class is the object-oriented model.  A memory is a record     *)
(*   kind   "Array" (plain state) or "ArrayBuffer" (Simulator),            *)
(*   length the array length / the buffer's byteLength,                    *)
(*   cells  the non-zero bytes (every other byte of the zero-filled        *)
(*          region, and every hole of a grown array, reads 0),             *)
(*   props  the non-zero properties set on the memory object itself: a     *)
(*          negative index of an Array, and every index of an              *)
(*          ArrayBuffer, is a property and not an element.                 *)
(***************************************************************************)
NumRegisters == 32

\* new Array(1024).fill(0)
PlainMemorySize == 1024

\* new ArrayBuffer(1024 * 1024)
SimMemorySize == 1024 * 1024

\* memory.slice(0, 256)
ResponseMemorySize == 256

NoCells == [k \in {} |-> 0]

ZeroRegisters == [r \in 0..(NumRegisters - 1) |-> 0]

\* the object literal assigned to simulatorState
NewPlainState ==
  [kind |-> "plain", registers |-> ZeroRegisters,
   memory |-> [kind |-> "Array", length |-> PlainMemorySize,
               cells |-> NoCells, props |-> NoCells],
   pc |-> 0, instructions |-> <<>>, halted |-> FALSE]

\* new Simulator()
NewSimulator ==
  [kind |-> "Simulator", registers |-> ZeroRegisters,
   memory |-> [kind |-> "ArrayBuffer", length |-> SimMemorySize,
               cells |-> NoCells, props |-> NoCells],
   pc |-> 0, instructions |-> <<>>, halted |-> FALSE,
   cycleCount |-> 0, executionHistory |-> <<>>]

\* the byte at an address of the zero-filled region
Cell(memory, addr) ==
  IF addr \in DOMAIN memory.cells THEN memory.cells[addr] ELSE 0

\* f with k bound to v; a zero is kept as the absence of an entry
Put(f, k, v) ==
  IF v = 0 THEN [x \in (DOMAIN f) \ {k} |-> f[x]]
           ELSE [x \in (DOMAIN f) \cup {k} |-> IF x = k THEN v ELSE f[x]]

SetCell(memory, addr, byte) == [memory EXCEPT !.cells = Put(@, addr, byte)]

\* is memory[addr] an element of the memory object
IsElement(memory, addr) == memory.kind = "Array" /\ addr >= 0

\* memory[addr] || 0
Index(memory, addr) ==
  IF IsElement(memory, addr)
    THEN Cell(memory, addr)
    ELSE IF addr \in DOMAIN memory.props THEN memory.props[addr] ELSE 0

\* memory[addr] = byte; an element at or past the length grows the array
SetIndex(memory, addr, byte) ==
  IF IsElement(memory, addr)
    THEN [memory EXCEPT !.cells = Put(@, addr, byte),
                        !.length = IF addr >= @ THEN addr + 1 ELSE @]
    ELSE [memory EXCEPT !.props = Put(@, addr, byte)]

\* (val >> (8 * i)) & 0xFF
ByteOf(val, i) ==
  CASE i = 0 -> Lo16(val) % 256
    [] i = 1 -> Lo16(val) \div 256
    [] i = 2 -> Hi16(val) % 256
    [] i = 3 -> Hi16(val) \div 256

Returned(v) == [threw |-> FALSE, value |-> v]

Thrown(msg) == [threw |-> TRUE, error |-> msg]

(* ---- the adapter Executor.execute builds around a state object ---- *)
AdapterGetRegister(state, r) == IF r = 0 THEN 0 ELSE state.registers[r]

AdapterSetRegisterNoGuard(state, r, v) ==
  [state EXCEPT !.registers[r] = ToInt32(v)]

AdapterSetRegister(state, r, v) ==
  IF r # 0 THEN [state EXCEPT !.registers[r] = ToInt32(v)] ELSE state

AdapterReadByte(state, addr) ==
  LET val == Index(state.memory, addr)
  IN  Returned(IF val > 127 THEN val - 256 ELSE val)

AdapterReadByteUnsigned(state, addr) == Returned(Index(state.memory, addr))

AdapterReadHalfWordUnsigned(state, addr) ==
  Returned(Index(state.memory, addr) + 256 * Index(state.memory, addr + 1))

AdapterReadHalfWord(state, addr) ==
  LET value == Index(state.memory, addr) + 256 * Index(state.memory, addr + 1)
  IN  Returned(IF value > 32767 THEN value - 65536 ELSE value)

AdapterReadWord(state, addr) ==
  Returned(FromHalves(
    Index(state.memory, addr + 2) + 256 * Index(state.memory, addr + 3),
    Index(state.memory, addr) + 256 * Index(state.memory, addr + 1)))

\* writeByte of the adapter clearing the byte after the one it writes
AdapterWriteByteAndNext(state, addr, val) ==
  Returned([state EXCEPT !.memory =
              SetIndex(SetIndex(@, addr, ByteOf(val, 0)), addr + 1, 0)])

AdapterWriteByte(state, addr, val) ==
  Returned([state EXCEPT !.memory = SetIndex(@, addr, ByteOf(val, 0))])

AdapterWriteHalfWord(state, addr, val) ==
  Returned([state EXCEPT !.memory =
    SetIndex(SetIndex(@, addr, ByteOf(val, 0)), addr + 1, ByteOf(val, 1))])

\* the writeWord of the adapter with the most significant byte first
AdapterWriteWordBigEndian(state, addr, val) ==
  Returned([state EXCEPT !.memory =
    SetIndex(SetIndex(SetIndex(SetIndex(@, addr, ByteOf(val, 3)),
                               addr + 1, ByteOf(val, 2)),
                      addr + 2, ByteOf(val, 1)),
             addr + 3, ByteOf(val, 0))])

AdapterWriteWord(state, addr, val) ==
  Returned([state EXCEPT !.memory =
    SetIndex(SetIndex(SetIndex(SetIndex(@, addr, ByteOf(val, 0)),
                               addr + 1, ByteOf(val, 1)),
                      addr + 2, ByteOf(val, 2)),
             addr + 3, ByteOf(val, 3))])

(* ---- the Simulator model ---- *)
SimGetRegister(this, reg) ==
  IF reg < 0 \/ reg > 31 THEN Thrown("Invalid register")
  ELSE Returned(IF reg = 0 THEN 0 ELSE this.registers[reg])

SimSetRegisterNoGuard(this, reg, value) ==
  IF reg < 0 \/ reg > 31 THEN Thrown("Invalid register")
  ELSE Returned([this EXCEPT !.registers[reg] = ToInt32(value)])

SimSetRegister(this, reg, value) ==
  IF reg < 0 \/ reg > 31 THEN Thrown("Invalid register")
  ELSE IF reg # 0
       THEN Returned([this EXCEPT !.registers[reg] = ToInt32(value)])
       ELSE Returned(this)

\* validateAddress: the message of the error it throws, or "ok"
validateAddress(this, address, size) ==
  IF address < 0 \/ address + size > this.memory.length
    THEN "Memory access violation"
  ELSE IF size = 2 /\ address % 2 # 0 THEN "Unaligned half-word access"
  ELSE IF size = 4 /\ address % 4 # 0 THEN "Unaligned word access"
  ELSE "ok"

Checked(this, address, size, result) ==
  IF validateAddress(this, address, size) # "ok"
    THEN Thrown(validateAddress(this, address, size))
    ELSE Returned(result)

\* getUint8: no sign extension
SimReadByte(this, address) ==
  Checked(this, address, 1, Cell(this.memory, address))

SimReadByteUnsigned(this, address) ==
  Checked(this, address, 1, Cell(this.memory, address))

\* getInt16(address, true)
SimReadHalfWord(this, address) ==
  LET value == Cell(this.memory, address) + 256 * Cell(this.memory, address + 1)
  IN  Checked(this, address, 2, IF value > 32767 THEN value - 65536 ELSE value)

\* getUint16(address, true)
SimReadHalfWordUnsigned(this, address) ==
  Checked(this, address, 2,
          Cell(this.memory, address) + 256 * Cell(this.memory, address + 1))

\* getInt32(address, true)
SimReadWord(this, address) ==
  Checked(this, address, 4, FromHalves(
    Cell(this.memory, address + 2) + 256 * Cell(this.memory, address + 3),
    Cell(this.memory, address) + 256 * Cell(this.memory, address + 1)))

\* setUint8(address, value & 0xFF)
SimWriteByte(this, address, value) ==
  Checked(this, address, 1,
    [this EXCEPT !.memory = SetCell(@, address, ByteOf(value, 0))])

\* setInt16(address, value & 0xFFFF, true)
SimWriteHalfWord(this, address, value) ==
  Checked(this, address, 2,
    [this EXCEPT !.memory =
      SetCell(SetCell(@, address, ByteOf(value, 0)), address + 1, ByteOf(value, 1))])

\* setInt32(address, value | 0, true)
SimWriteWord(this, address, value) ==
  Checked(this, address, 4,
    [this EXCEPT !.memory =
      SetCell(SetCell(SetCell(SetCell(@, address, ByteOf(value, 0)),
                              address + 1, ByteOf(value, 1)),
                      address + 2, ByteOf(value, 2)),
              address + 3, ByteOf(value, 3))])

(***************************************************************************)
(* The `sim` object the executor's handlers call: [adapter, state, pc].    *)
(* With adapter TRUE it is the adapter around state (and pc the value of   *)
(* state.pc when the adapter was built); otherwise it is state itself.     *)
(***************************************************************************)
\* state.registers && Array.isArray(state.registers)
HasRegisterArray(state) == "registers" \in DOMAIN state

MakeSim(state) ==
  [adapter |-> HasRegisterArray(state), state |-> state, pc |-> state.pc]

\* lift an operation on the state object to the sim object
Lift(sim, r) ==
  IF r.threw THEN r ELSE Returned([sim EXCEPT !.state = r.value])

getRegister(sim, r) ==
  IF sim.adapter THEN Returned(AdapterGetRegister(sim.state, r))
                 ELSE SimGetRegister(sim.state, r)

setRegister(sim, r, v) ==
  Lift(sim, IF sim.adapter THEN Returned(AdapterSetRegister(sim.state, r, v))
                           ELSE SimSetRegister(sim.state, r, v))

readByte(sim, a) ==
  IF sim.adapter THEN AdapterReadByte(sim.state, a) ELSE SimReadByte(sim.state, a)

readByteUnsigned(sim, a) ==
  IF sim.adapter THEN AdapterReadByteUnsigned(sim.state, a)
                 ELSE SimReadByteUnsigned(sim.state, a)

readHalfWord(sim, a) ==
  IF sim.adapter THEN AdapterReadHalfWord(sim.state, a)
                 ELSE SimReadHalfWord(sim.state, a)

readHalfWordUnsigned(sim, a) ==
  IF sim.adapter THEN AdapterReadHalfWordUnsigned(sim.state, a)
                 ELSE SimReadHalfWordUnsigned(sim.state, a)

readWord(sim, a) ==
  IF sim.adapter THEN AdapterReadWord(sim.state, a) ELSE SimReadWord(sim.state, a)

writeByte(sim, a, v) ==
  Lift(sim, IF sim.adapter THEN AdapterWriteByte(sim.state, a, v)
                           ELSE SimWriteByte(sim.state, a, v))

writeHalfWord(sim, a, v) ==
  Lift(sim, IF sim.adapter THEN AdapterWriteHalfWord(sim.state, a, v)
                           ELSE SimWriteHalfWord(sim.state, a, v))

writeWord(sim, a, v) ==
  Lift(sim, IF sim.adapter THEN AdapterWriteWord(sim.state, a, v)
                           ELSE SimWriteWord(sim.state, a, v))

\* sim.pc || 0
PcOf(sim) == IF sim.adapter THEN sim.pc ELSE sim.state.pc

\* setPC, incrementPC, halt: the same assignment on the adapter and the model
setPC(sim, v) == [sim EXCEPT !.state.pc = v]

incrementPC(sim) == [sim EXCEPT !.state.pc = @ + 1]

\* halt that leaves the flag as it is
haltWithoutFlag(sim) == sim

halt(sim) == [sim EXCEPT !.state.halted = TRUE]

(***************************************************************************)
(* Decoder.  An instruction record is a record holding opcode, format,     *)
(* index, lineNum, original and the operand fields its format parser set;  *)
(* a field that was never assigned (undefined) is absent from the record.  *)
(***************************************************************************)
ROpcodes == {"ADD", "SUB", "SLL", "SLT", "SLTU", "XOR", "SRL", "SRA", "OR", "AND"}

IOpcodes == {"ADDI", "SLTI", "SLTIU", "XORI", "ORI", "ANDI", "SLLI", "SRLI", "SRAI"}

ShiftImmOpcodes == {"SLLI", "SRLI", "SRAI"}

LoadOpcodes == {"LB", "LH", "LW", "LBU", "LHU"}

StoreOpcodes == {"SB", "SH", "SW"}

BranchOpcodes == {"BEQ", "BNE", "BLT", "BGE", "BLTU", "BGEU"}

UOpcodes == {"LUI", "AUIPC"}

AllOpcodes ==
  ROpcodes \cup IOpcodes \cup LoadOpcodes \cup StoreOpcodes \cup BranchOpcodes
    \cup UOpcodes \cup {"JAL", "JALR", "HLT"}

\* Decoder.opcodes[opcode].type (funct3 and funct7 are never read)
opcodes(opcode) ==
  CASE opcode \in ROpcodes -> "R"
    [] opcode \in IOpcodes -> "I"
    [] opcode \in LoadOpcodes -> "IL"
    [] opcode \in StoreOpcodes -> "S"
    [] opcode \in BranchOpcodes -> "SB"
    [] opcode = "JAL" -> "UJ"
    [] opcode = "JALR" -> "JALR"
    [] opcode \in UOpcodes -> "U"
    [] opcode = "HLT" -> "HLT"

Has(instruction, f) == f \in DOMAIN instruction

\* Decoder.signExtend(value, bits)
signExtend(value, bits) ==
  LET signBit == ShiftLeft(1, bits - 1)
  IN  IF BitAnd(value, signBit) # 0
        THEN BitOr(value, ShiftLeft(-1, bits))
        ELSE BitAnd(value, ShiftLeft(1, bits) - 1)

\* validateRegister: TRUE when it throws
BadRegister(reg) == reg < 0 \/ reg > 31

decodeRFormat(instruction, decoded) ==
  IF ~(Has(instruction, "rd") /\ Has(instruction, "rs1") /\ Has(instruction, "rs2"))
    THEN Thrown("missing operands")
  ELSE IF BadRegister(instruction.rd) \/ BadRegister(instruction.rs1)
          \/ BadRegister(instruction.rs2)
    THEN Thrown("Invalid register")
  ELSE Returned(decoded @@ [rd |-> instruction.rd, rs1 |-> instruction.rs1,
                            rs2 |-> instruction.rs2])

decodeIFormat(instruction, decoded) ==
  IF ~(Has(instruction, "rd") /\ Has(instruction, "rs1") /\ Has(instruction, "imm"))
    THEN Thrown("missing operands")
  ELSE IF instruction.opcode \in ShiftImmOpcodes
          /\ (instruction.imm < 0 \/ instruction.imm > 31)
    THEN Thrown("shift amount must be 0-31")
  ELSE IF BadRegister(instruction.rd) \/ BadRegister(instruction.rs1)
    THEN Thrown("Invalid register")
  ELSE Returned(
         decoded @@ [rd |-> instruction.rd, rs1 |-> instruction.rs1,
                     imm |-> signExtend(instruction.imm, 12)]
           @@ (IF instruction.opcode \in ShiftImmOpcodes
                 THEN [shamt |-> instruction.imm] ELSE NoCells))

decodeLoadFormat(instruction, decoded) ==
  IF ~(Has(instruction, "rd") /\ Has(instruction, "rs1") /\ Has(instruction, "imm"))
    THEN Thrown("missing operands")
  ELSE IF BadRegister(instruction.rd) \/ BadRegister(instruction.rs1)
    THEN Thrown("Invalid register")
  ELSE Returned(decoded @@ [rd |-> instruction.rd, rs1 |-> instruction.rs1,
                            imm |-> signExtend(instruction.imm, 12)])

decodeStoreFormat(instruction, decoded) ==
  IF ~(Has(instruction, "rs1") /\ Has(instruction, "rs2") /\ Has(instruction, "imm"))
    THEN Thrown("missing operands")
  ELSE IF BadRegister(instruction.rs1) \/ BadRegister(instruction.rs2)
    THEN Thrown("Invalid register")
  ELSE Returned(decoded @@ [rs1 |-> instruction.rs1, rs2 |-> instruction.rs2,
                            imm |-> signExtend(instruction.imm, 12)])

\* instruction.label is copied when it is set
LabelOf(instruction) ==
  IF Has(instruction, "label") THEN [label |-> instruction.label] ELSE NoCells

\* decodeBranchFormat without the test of the low bit
decodeBranchFormatUnaligned(instruction, decoded) ==
  IF ~(Has(instruction, "rs1") /\ Has(instruction, "rs2") /\ Has(instruction, "imm"))
    THEN Thrown("missing operands")
  ELSE IF BadRegister(instruction.rs1) \/ BadRegister(instruction.rs2)
    THEN Thrown("Invalid register")
  ELSE Returned(decoded @@ [rs1 |-> instruction.rs1, rs2 |-> instruction.rs2,
                            imm |-> signExtend(instruction.imm, 13)]
                  @@ LabelOf(instruction))

decodeBranchFormat(instruction, decoded) ==
  IF ~(Has(instruction, "rs1") /\ Has(instruction, "rs2") /\ Has(instruction, "imm"))
    THEN Thrown("missing operands")
  ELSE IF signExtend(instruction.imm, 13) % 2 # 0
    THEN Thrown("branch offset must be even")
  ELSE IF BadRegister(instruction.rs1) \/ BadRegister(instruction.rs2)
    THEN Thrown("Invalid register")
  ELSE Returned(decoded @@ [rs1 |-> instruction.rs1, rs2 |-> instruction.rs2,
                            imm |-> signExtend(instruction.imm, 13)]
                  @@ LabelOf(instruction))

decodeJALFormat(instruction, decoded) ==
  IF ~(Has(instruction, "rd") /\ Has(instruction, "imm"))
    THEN Thrown("missing operands")
  ELSE IF signExtend(instruction.imm, 21) % 2 # 0
    THEN Thrown("jump offset must be even")
  ELSE IF BadRegister(instruction.rd)
    THEN Thrown("Invalid register")
  ELSE Returned(decoded @@ [rd |-> instruction.rd,
                            imm |-> signExtend(instruction.imm, 21)]
                  @@ LabelOf(instruction))

decodeJALRFormat(instruction, decoded) ==
  IF ~(Has(instruction, "rd") /\ Has(instruction, "rs1") /\ Has(instruction, "imm"))
    THEN Thrown("missing operands")
  ELSE IF BadRegister(instruction.rd) \/ BadRegister(instruction.rs1)
    THEN Thrown("Invalid register")
  ELSE Returned(decoded @@ [rd |-> instruction.rd, rs1 |-> instruction.rs1,
                            imm |-> signExtend(instruction.imm, 12)])

\* decoded.imm = (instruction.imm & 0xFFFFF) << 12
decodeUFormat(instruction, decoded) ==
  IF ~(Has(instruction, "rd") /\ Has(instruction, "imm"))
    THEN Thrown("missing operands")
  ELSE IF BadRegister(instruction.rd)
    THEN Thrown("Invalid register")
  ELSE Returned(decoded @@ [rd |-> instruction.rd,
                            imm |-> ShiftLeft(BitAnd(instruction.imm, 1048575), 12)])

\* Decoder.decode; None stands for an undefined instruction (instructions[pc]
\* outside the array)
None == [undefined |-> TRUE]

decode(instruction) ==
  IF instruction = None \/ ~Has(instruction, "opcode")
    THEN Thrown("Invalid instruction: missing opcode")
  ELSE IF instruction.opcode \notin AllOpcodes
    THEN Thrown("Unknown opcode")
  ELSE
    LET type == opcodes(instruction.opcode)
        decoded == [opcode |-> instruction.opcode, type |-> type,
                    format |-> instruction.format, index |-> instruction.index,
                    lineNum |-> instruction.lineNum,
                    original |-> instruction.original]
    IN  CASE type = "R" -> decodeRFormat(instruction, decoded)
          [] type = "I" -> decodeIFormat(instruction, decoded)
          [] type = "IL" -> decodeLoadFormat(instruction, decoded)
          [] type = "S" -> decodeStoreFormat(instruction, decoded)
          [] type = "SB" -> decodeBranchFormat(instruction, decoded)
          [] type = "UJ" -> decodeJALFormat(instruction, decoded)
          [] type = "JALR" -> decodeJALRFormat(instruction, decoded)
          [] type = "U" -> decodeUFormat(instruction, decoded)
          [] type = "HLT" -> Returned(decoded)

\* decode writing the type of the opcode into the record it is given
RecordAfterDecodeTagged(instruction) ==
  IF instruction = None \/ ~Has(instruction, "opcode")
       \/ instruction.opcode \notin AllOpcodes
    THEN instruction
    ELSE [type |-> opcodes(instruction.opcode)] @@ instruction

\* the record instruction after decoder.decode(instruction): decode and the
\* functions it calls assign to the fields of decoded, a new object, and to
\* none of instruction
RecordAfterDecode(instruction) == instruction

(***************************************************************************)
(* Executor.  Every handler returns Returned(sim) with the mutated sim, or *)
(* Thrown(message); a handler that throws has mutated nothing before.      *)
(***************************************************************************)
\* sim.setRegister(decoded.rd, result); sim.incrementPC()
WriteBack(decoded, sim, result) ==
  LET w == setRegister(sim, decoded.rd, result)
  IN  IF w.threw THEN w ELSE Returned(incrementPC(w.value))

\* the common shape of the R-format handlers
RegisterOp(decoded, sim, Op(_, _)) ==
  LET rs1Val == getRegister(sim, decoded.rs1)
      rs2Val == getRegister(sim, decoded.rs2)
  IN  IF rs1Val.threw THEN rs1Val
      ELSE IF rs2Val.threw THEN rs2Val
      ELSE WriteBack(decoded, sim, Op(rs1Val.value, rs2Val.value))

\* the common shape of the I-format handlers
ImmediateOp(decoded, sim, Op(_, _)) ==
  LET rs1Val == getRegister(sim, decoded.rs1)
  IN  IF rs1Val.threw THEN rs1Val
      ELSE WriteBack(decoded, sim, Op(rs1Val.value, decoded.imm))

SllOp(a, b) == ShiftLeft(a, BitAnd(b, 31))

SrlOp(a, b) == ShiftRightLogical(a, BitAnd(b, 31))

SraOp(a, b) == ShiftRightArith(a, BitAnd(b, 31))

SltOp(a, b) == IF a < b THEN 1 ELSE 0

SltuOp(a, b) == IF UnsignedLess(a, b) THEN 1 ELSE 0

\* (rs1Val + rs2Val) | 0 with the wraparound lost: the sum as a plain number
AddNoWrap(a, b) == IF a > 0 /\ b > MaxInt32 - a THEN MaxInt32 ELSE AddWrap(a, b)

AddOp(a, b) == AddWrap(a, b)

executeADD(decoded, sim) == RegisterOp(decoded, sim, AddOp)

executeSUB(decoded, sim) == RegisterOp(decoded, sim, SubWrap)

executeSLL(decoded, sim) == RegisterOp(decoded, sim, SllOp)

executeSLT(decoded, sim) == RegisterOp(decoded, sim, SltOp)

executeSLTU(decoded, sim) == RegisterOp(decoded, sim, SltuOp)

executeXOR(decoded, sim) == RegisterOp(decoded, sim, BitXor)

executeSRL(decoded, sim) == RegisterOp(decoded, sim, SrlOp)

\* SRA filling with zeros
executeSRAZeroFilling(decoded, sim) == RegisterOp(decoded, sim, SrlOp)

executeSRA(decoded, sim) == RegisterOp(decoded, sim, SraOp)

executeOR(decoded, sim) == RegisterOp(decoded, sim, BitOr)

executeAND(decoded, sim) == RegisterOp(decoded, sim, BitAnd)

executeADDI(decoded, sim) == ImmediateOp(decoded, sim, AddOp)

executeSLTI(decoded, sim) == ImmediateOp(decoded, sim, SltOp)

executeSLTIU(decoded, sim) == ImmediateOp(decoded, sim, SltuOp)

executeXORI(decoded, sim) == ImmediateOp(decoded, sim, BitXor)

executeORI(decoded, sim) == ImmediateOp(decoded, sim, BitOr)

executeANDI(decoded, sim) == ImmediateOp(decoded, sim, BitAnd)

\* decoded.shamt || (decoded.imm & 0x1F)
ShamtOf(decoded) ==
  IF Has(decoded, "shamt") /\ decoded.shamt # 0
    THEN decoded.shamt ELSE BitAnd(decoded.imm, 31)

SlliOp(decoded, a) == ShiftLeft(a, BitAnd(ShamtOf(decoded), 31))

SrliOp(decoded, a) == ShiftRightLogical(a, BitAnd(ShamtOf(decoded), 31))

SraiOp(decoded, a) == ShiftRightArith(a, BitAnd(ShamtOf(decoded), 31))

executeSLLI(decoded, sim) ==
  LET rs1Val == getRegister(sim, decoded.rs1)
  IN  IF rs1Val.threw THEN rs1Val
      ELSE WriteBack(decoded, sim, SlliOp(decoded, rs1Val.value))

executeSRLI(decoded, sim) ==
  LET rs1Val == getRegister(sim, decoded.rs1)
  IN  IF rs1Val.threw THEN rs1Val
      ELSE WriteBack(decoded, sim, SrliOp(decoded, rs1Val.value))

executeSRAI(decoded, sim) ==
  LET rs1Val == getRegister(sim, decoded.rs1)
  IN  IF rs1Val.threw THEN rs1Val
      ELSE WriteBack(decoded, sim, SraiOp(decoded, rs1Val.value))

\* address = (rs1Val + decoded.imm) | 0
EffectiveAddress(decoded, sim) ==
  AddWrap(getRegister(sim, decoded.rs1).value, decoded.imm)

\* the common shape of the load handlers
LoadOp(decoded, sim, Read(_, _)) ==
  LET rs1Val == getRegister(sim, decoded.rs1)
  IN  IF rs1Val.threw THEN rs1Val
      ELSE LET value == Read(sim, EffectiveAddress(decoded, sim))
           IN  IF value.threw THEN value
               ELSE WriteBack(decoded, sim, value.value)

executeLB(decoded, sim) == LoadOp(decoded, sim, readByte)

executeLH(decoded, sim) == LoadOp(decoded, sim, readHalfWord)

executeLW(decoded, sim) == LoadOp(decoded, sim, readWord)

executeLBU(decoded, sim) == LoadOp(decoded, sim, readByteUnsigned)

executeLHU(decoded, sim) == LoadOp(decoded, sim, readHalfWordUnsigned)

\* the common shape of the store handlers
StoreOp(decoded, sim, Write(_, _, _), mask) ==
  LET rs1Val == getRegister(sim, decoded.rs1)
      rs2Val == getRegister(sim, decoded.rs2)
  IN  IF rs1Val.threw THEN rs1Val
      ELSE IF rs2Val.threw THEN rs2Val
      ELSE LET w == Write(sim, EffectiveAddress(decoded, sim),
                          BitAnd(rs2Val.value, mask))
           IN  IF w.threw THEN w ELSE Returned(incrementPC(w.value))

executeSB(decoded, sim) == StoreOp(decoded, sim, writeByte, 255)

executeSH(decoded, sim) == StoreOp(decoded, sim, writeHalfWord, 65535)

executeSW(decoded, sim) == StoreOp(decoded, sim, writeWord, -1)

\* the common shape of the branch handlers: Taken is the opcode's predicate
BranchOp(decoded, sim, Taken(_, _)) ==
  LET rs1Val == getRegister(sim, decoded.rs1)
      rs2Val == getRegister(sim, decoded.rs2)
  IN  IF rs1Val.threw THEN rs1Val
      ELSE IF rs2Val.threw THEN rs2Val
      ELSE IF Taken(rs1Val.value, rs2Val.value)
        THEN Returned(setPC(sim, PcOf(sim) + (decoded.imm \div 4)))
        ELSE Returned(incrementPC(sim))

EqOp(a, b) == a = b

NeOp(a, b) == a # b

LtOp(a, b) == a < b

GeOp(a, b) == a >= b

LtuOp(a, b) == UnsignedLess(a, b)

GeuOp(a, b) == ~UnsignedLess(a, b)

executeBEQ(decoded, sim) == BranchOp(decoded, sim, EqOp)

\* BNE taken when the registers are equal
executeBNETakenOnEqual(decoded, sim) == BranchOp(decoded, sim, EqOp)

executeBNE(decoded, sim) == BranchOp(decoded, sim, NeOp)

executeBLT(decoded, sim) == BranchOp(decoded, sim, LtOp)

executeBGE(decoded, sim) == BranchOp(decoded, sim, GeOp)

executeBLTU(decoded, sim) == BranchOp(decoded, sim, LtuOp)

\* BGEU comparing the signed values
executeBGEUSigned(decoded, sim) == BranchOp(decoded, sim, GeOp)

executeBGEU(decoded, sim) == BranchOp(decoded, sim, GeuOp)

executeJAL(decoded, sim) ==
  LET returnAddress == PcOf(sim) + 1
      w == setRegister(sim, decoded.rd, returnAddress)
  IN  IF w.threw THEN w
      ELSE Returned(setPC(w.value, PcOf(w.value) + (decoded.imm \div 4)))

\* JALR that reads rs1 after it has written the return address
executeJALRReadingAfterWrite(decoded, sim) ==
  IF setRegister(sim, decoded.rd, PcOf(sim) + 1).threw
    THEN setRegister(sim, decoded.rd, PcOf(sim) + 1)
    ELSE Returned(setPC(
           setRegister(sim, decoded.rd, PcOf(sim) + 1).value,
           IF getRegister(setRegister(sim, decoded.rd, PcOf(sim) + 1).value,
                          decoded.rs1).value < 1000
             THEN getRegister(setRegister(sim, decoded.rd, PcOf(sim) + 1).value,
                              decoded.rs1).value + (decoded.imm \div 4)
             ELSE BitAnd(AddWrap(
                    getRegister(setRegister(sim, decoded.rd, PcOf(sim) + 1).value,
                                decoded.rs1).value, decoded.imm), -2) \div 4))

executeJALR(decoded, sim) ==
  LET rs1Val == getRegister(sim, decoded.rs1)
      returnAddress == PcOf(sim) + 1
  IN  IF rs1Val.threw THEN rs1Val
      ELSE LET targetPC ==
                 IF rs1Val.value < 1000
                   THEN rs1Val.value + (decoded.imm \div 4)
                   ELSE BitAnd(AddWrap(rs1Val.value, decoded.imm), -2) \div 4
               w == setRegister(sim, decoded.rd, returnAddress)
           IN  IF w.threw THEN w ELSE Returned(setPC(w.value, targetPC))

executeLUI(decoded, sim) == WriteBack(decoded, sim, decoded.imm)

\* AUIPC adding the immediate to the instruction index
executeAUIPCFromIndex(decoded, sim) ==
  WriteBack(decoded, sim, AddWrap(PcOf(sim), decoded.imm))

\* (pc * 4) | 0, by the halves of the word so that no product leaves 32 bits
PcBytes(pc) == FromHalves((pc \div (Half \div 4)) % Half, (pc % (Half \div 4)) * 4)

executeAUIPC(decoded, sim) ==
  WriteBack(decoded, sim, AddWrap(PcBytes(PcOf(sim)), decoded.imm))

executeHLTAdvancing(decoded, sim) == Returned(incrementPC(halt(sim)))

executeHLT(decoded, sim) == Returned(halt(sim))

\* the switch of Executor.execute
Dispatch(decoded, sim) ==
  CASE decoded.opcode = "ADD" -> executeADD(decoded, sim)
    [] decoded.opcode = "SUB" -> executeSUB(decoded, sim)
    [] decoded.opcode = "SLL" -> executeSLL(decoded, sim)
    [] decoded.opcode = "SLT" -> executeSLT(decoded, sim)
    [] decoded.opcode = "SLTU" -> executeSLTU(decoded, sim)
    [] decoded.opcode = "XOR" -> executeXOR(decoded, sim)
    [] decoded.opcode = "SRL" -> executeSRL(decoded, sim)
    [] decoded.opcode = "SRA" -> executeSRA(decoded, sim)
    [] decoded.opcode = "OR" -> executeOR(decoded, sim)
    [] decoded.opcode = "AND" -> executeAND(decoded, sim)
    [] decoded.opcode = "ADDI" -> executeADDI(decoded, sim)
    [] decoded.opcode = "SLTI" -> executeSLTI(decoded, sim)
    [] decoded.opcode = "SLTIU" -> executeSLTIU(decoded, sim)
    [] decoded.opcode = "XORI" -> executeXORI(decoded, sim)
    [] decoded.opcode = "ORI" -> executeORI(decoded, sim)
    [] decoded.opcode = "ANDI" -> executeANDI(decoded, sim)
    [] decoded.opcode = "SLLI" -> executeSLLI(decoded, sim)
    [] decoded.opcode = "SRLI" -> executeSRLI(decoded, sim)
    [] decoded.opcode = "SRAI" -> executeSRAI(decoded, sim)
    [] decoded.opcode = "LB" -> executeLB(decoded, sim)
    [] decoded.opcode = "LH" -> executeLH(decoded, sim)
    [] decoded.opcode = "LW" -> executeLW(decoded, sim)
    [] decoded.opcode = "LBU" -> executeLBU(decoded, sim)
    [] decoded.opcode = "LHU" -> executeLHU(decoded, sim)
    [] decoded.opcode = "SB" -> executeSB(decoded, sim)
    [] decoded.opcode = "SH" -> executeSH(decoded, sim)
    [] decoded.opcode = "SW" -> executeSW(decoded, sim)
    [] decoded.opcode = "BEQ" -> executeBEQ(decoded, sim)
    [] decoded.opcode = "BNE" -> executeBNE(decoded, sim)
    [] decoded.opcode = "BLT" -> executeBLT(decoded, sim)
    [] decoded.opcode = "BGE" -> executeBGE(decoded, sim)
    [] decoded.opcode = "BLTU" -> executeBLTU(decoded, sim)
    [] decoded.opcode = "BGEU" -> executeBGEU(decoded, sim)
    [] decoded.opcode = "JAL" -> executeJAL(decoded, sim)
    [] decoded.opcode = "JALR" -> executeJALR(decoded, sim)
    [] decoded.opcode = "LUI" -> executeLUI(decoded, sim)
    [] decoded.opcode = "AUIPC" -> executeAUIPC(decoded, sim)
    [] decoded.opcode = "HLT" -> executeHLT(decoded, sim)
    [] OTHER -> Thrown("Execution not implemented")

\* Executor.execute(decoded, state): the state object after the call, or the
\* error thrown
execute(decoded, state) ==
  LET r == Dispatch(decoded, MakeSim(state))
  IN  IF r.threw THEN r ELSE Returned(r.value.state)

(***************************************************************************)
(* Parser.  A text is a sequence of one-character strings.                 *)
(***************************************************************************)
LowerCase ==
  <<"a", "b", "c", "d", "e", "f", "g", "h", "i", "j", "k", "l", "m",
    "n", "o", "p", "q", "r", "s", "t", "u", "v", "w", "x", "y", "z">>

UpperCase ==
  <<"A", "B", "C", "D", "E", "F", "G", "H", "I", "J", "K", "L", "M",
    "N", "O", "P", "Q", "R", "S", "T", "U", "V", "W", "X", "Y", "Z">>

DigitChars == <<"0", "1", "2", "3", "4", "5", "6", "7", "8", "9">>

Range(seq) == {seq[i] : i \in DOMAIN seq}

\* \s of a regular expression, and what trim() removes
Whitespace == {" ", "\t", "\r"}

\* \w of a regular expression
WordChars == Range(LowerCase) \cup Range(UpperCase) \cup Range(DigitChars) \cup {"_"}

\* the separators of parseInstruction's split: [\s,()]
Separators == Whitespace \cup {",", "(", ")"}

IndexIn(seq, c) == CHOOSE i \in DOMAIN seq : seq[i] = c

toUpperCase(text) ==
  [i \in DOMAIN text |->
     IF text[i] \in Range(LowerCase) THEN UpperCase[IndexIn(LowerCase, text[i])]
                                     ELSE text[i]]

toLowerCase(text) ==
  [i \in DOMAIN text |->
     IF text[i] \in Range(UpperCase) THEN LowerCase[IndexIn(UpperCase, text[i])]
                                     ELSE text[i]]

RECURSIVE Join(_)
\* the string a text spells
Join(text) == IF text = <<>> THEN "" ELSE Head(text) \o Join(Tail(text))

\* text.substring(from) with from counted from 0
Substring(text, from) == SubSeq(text, from + 1, Len(text))

\* text.startsWith(prefix)
StartsWith(text, prefix) ==
  Len(text) >= Len(prefix) /\ SubSeq(text, 1, Len(prefix)) = prefix

\* text.includes(c)
Includes(text, c) == \E i \in DOMAIN text : text[i] = c

RECURSIVE TrimLeft(_)
TrimLeft(text) ==
  IF text # <<>> /\ Head(text) \in Whitespace THEN TrimLeft(Tail(text)) ELSE text

RECURSIVE TrimRight(_)
TrimRight(text) ==
  IF text # <<>> /\ text[Len(text)] \in Whitespace
    THEN TrimRight(SubSeq(text, 1, Len(text) - 1)) ELSE text

\* text.trim()
Trim(text) == TrimRight(TrimLeft(text))

RECURSIVE SplitOn(_, _, _)
\* text.split(c): the pieces between the occurrences of c; cur is the piece
\* being read
SplitOn(text, c, cur) ==
  IF text = <<>> THEN <<cur>>
  ELSE IF Head(text) = c THEN <<cur>> \o SplitOn(Tail(text), c, <<>>)
  ELSE SplitOn(Tail(text), c, Append(cur, Head(text)))

RECURSIVE Tokens(_, _)
\* line.split(/[\s,()]+/).filter(part => part.length > 0)
Tokens(text, cur) ==
  IF text = <<>> THEN (IF cur = <<>> THEN <<>> ELSE <<cur>>)
  ELSE IF Head(text) \in Separators
    THEN (IF cur = <<>> THEN <<>> ELSE <<cur>>) \o Tokens(Tail(text), <<>>)
  ELSE Tokens(Tail(text), Append(cur, Head(text)))

\* line.substring(0, commentIndex) when the line has a '#' (at hashes)
BeforeComment(line, hashes) ==
  IF hashes = {} THEN line
  ELSE SubSeq(line, 1, (CHOOSE i \in hashes : \A j \in hashes : i <= j) - 1)

\* Parser.cleanLine
cleanLine(line) ==
  Trim(BeforeComment(line, {i \in DOMAIN line : line[i] = "#"}))

(* ---- parseInt ---- *)
\* a number, or NaN
Number(n) == [nan |-> FALSE, n |-> n]

NaN == [nan |-> TRUE, n |-> 0]

HexLetters == <<"a", "b", "c", "d", "e", "f">>

\* the value of a digit character, or 36 when it is none
DigitOf(c) ==
  IF c \in Range(DigitChars) THEN IndexIn(DigitChars, c) - 1
  ELSE IF c \in Range(HexLetters) THEN 9 + IndexIn(HexLetters, c)
  ELSE IF c \in Range(SubSeq(UpperCase, 1, 6))
    THEN 9 + IndexIn(SubSeq(UpperCase, 1, 6), c)
  ELSE 36

\* the value of a digit character in the radix, or -1
DigitValue(c, radix) == IF DigitOf(c) < radix THEN DigitOf(c) ELSE -1

RECURSIVE Digits(_, _, _, _)
\* the number spelled by the longest prefix of digits, NaN when it is empty
Digits(text, radix, acc, any) ==
  IF text = <<>> \/ DigitValue(Head(text), radix) < 0
    THEN (IF any THEN Number(acc) ELSE NaN)
    ELSE Digits(Tail(text), radix, acc * radix + DigitValue(Head(text), radix), TRUE)

\* a text without its sign
Unsigned(text) ==
  IF text # <<>> /\ Head(text) \in {"-", "+"} THEN Tail(text) ELSE text

\* a text without the 0x that radix 16 allows
Unprefixed(text, radix) ==
  IF radix = 16 /\ (StartsWith(text, <<"0", "x">>) \/ StartsWith(text, <<"0", "X">>))
    THEN Substring(text, 2) ELSE text

\* the number d with the sign read
Negated(neg, d) == IF d.nan THEN NaN ELSE IF neg THEN Number(-d.n) ELSE d

\* parseInt of a text without leading white space
ParseIntTrimmed(text, radix) ==
  Negated(text # <<>> /\ Head(text) = "-",
          Digits(Unprefixed(Unsigned(text), radix), radix, 0, FALSE))

\* parseInt(text, radix) for radix 2, 10, 16
parseInt(text, radix) == ParseIntTrimmed(TrimLeft(text), radix)

\* the value parseImmediate reads
ImmediateValue(imm) ==
  IF StartsWith(imm, <<"0", "x">>) \/ StartsWith(imm, <<"0", "X">>)
    THEN parseInt(imm, 16)
  ELSE IF StartsWith(imm, <<"0", "b">>) \/ StartsWith(imm, <<"0", "B">>)
    THEN parseInt(Substring(imm, 2), 2)
  ELSE parseInt(imm, 10)

\* the checks of parseImmediate against the unsigned range of the width
CheckImmediateUnsigned(value, bits) ==
  IF value.nan THEN Thrown("Invalid immediate value")
  ELSE IF value.n > ShiftLeft(1, bits) - 1 \/ value.n < -ShiftLeft(1, bits - 1)
    THEN Thrown("Immediate value does not fit")
  ELSE Returned(value.n)

\* the checks parseImmediate makes on the value
CheckImmediate(value, bits) ==
  IF value.nan THEN Thrown("Invalid immediate value")
  ELSE IF value.n > ShiftLeft(1, bits - 1) - 1 \/ value.n < -ShiftLeft(1, bits - 1)
    THEN Thrown("Immediate value does not fit")
  ELSE Returned(value.n)

\* Parser.parseImmediate(imm, bits)
parseImmediate(imm, bits) == CheckImmediate(ImmediateValue(imm), bits)

(* ---- registers and formats ---- *)
XNames ==
  <<"x0", "x1", "x2", "x3", "x4", "x5", "x6", "x7", "x8", "x9", "x10",
    "x11", "x12", "x13", "x14", "x15", "x16", "x17", "x18", "x19", "x20",
    "x21", "x22", "x23", "x24", "x25", "x26", "x27", "x28", "x29", "x30", "x31">>

AbiNames ==
  <<"zero", "ra", "sp", "gp", "tp", "t0", "t1", "t2", "s0", "s1", "a0",
    "a1", "a2", "a3", "a4", "a5", "a6", "a7", "s2", "s3", "s4",
    "s5", "s6", "s7", "s8", "s9", "s10", "s11", "t3", "t4", "t5", "t6">>

\* the keys of Parser.registerMap
RegisterNames == Range(XNames) \cup Range(AbiNames) \cup {"fp"}

\* Parser.registerMap[name]
registerMap(name) ==
  IF name \in Range(XNames) THEN IndexIn(XNames, name) - 1
  ELSE IF name \in Range(AbiNames) THEN IndexIn(AbiNames, name) - 1
  ELSE 8

\* Parser.registerMap[regLower], or the error of parseRegister
LookUp(regLower) ==
  IF regLower \in RegisterNames THEN Returned(registerMap(regLower))
                                ELSE Thrown("Invalid register")

\* Parser.parseRegister
parseRegister(reg) == LookUp(Join(toLowerCase(reg)))

\* instructionFormats with LUI and AUIPC in the format of JAL
instructionFormatsUpperAsJump(opcode) ==
  CASE opcode \in {"ADD", "SUB", "SLL", "SLT", "SLTU",
                   "XOR", "SRL", "SRA", "OR", "AND"} -> "R"
    [] opcode \in {"ADDI", "SLTI", "SLTIU", "XORI",
                   "ORI", "ANDI", "SLLI", "SRLI", "SRAI"} -> "I"
    [] opcode \in {"LB", "LH", "LW", "LBU", "LHU"} -> "IL"
    [] opcode \in {"SB", "SH", "SW"} -> "S"
    [] opcode \in {"BEQ", "BNE", "BLT", "BGE", "BLTU", "BGEU"} -> "SB"
    [] opcode = "JAL" -> "UJ"
    [] opcode = "JALR" -> "JALR"
    [] opcode \in {"LUI", "AUIPC"} -> "UJ"
    [] opcode = "HLT" -> "HLT"

\* Parser.instructionFormats[opcode]
instructionFormats(opcode) ==
  CASE opcode \in {"ADD", "SUB", "SLL", "SLT", "SLTU",
                   "XOR", "SRL", "SRA", "OR", "AND"} -> "R"
    [] opcode \in {"ADDI", "SLTI", "SLTIU", "XORI",
                   "ORI", "ANDI", "SLLI", "SRLI", "SRAI"} -> "I"
    [] opcode \in {"LB", "LH", "LW", "LBU", "LHU"} -> "IL"
    [] opcode \in {"SB", "SH", "SW"} -> "S"
    [] opcode \in {"BEQ", "BNE", "BLT", "BGE", "BLTU", "BGEU"} -> "SB"
    [] opcode = "JAL" -> "UJ"
    [] opcode = "JALR" -> "JALR"
    [] opcode \in {"LUI", "AUIPC"} -> "U"
    [] opcode = "HLT" -> "HLT"

\* the first error of a sequence of results, in evaluation order
RECURSIVE FirstThrown(_)
FirstThrown(results) ==
  IF results = <<>> THEN Returned(0)
  ELSE IF Head(results).threw THEN Head(results)
  ELSE FirstThrown(Tail(results))

\* the record with the parsed operands assigned, or the first error
Assign(instruction, names, results) ==
  IF FirstThrown(results).threw THEN FirstThrown(results)
  ELSE Returned(instruction @@
         [f \in Range(names) |-> results[IndexIn(names, f)].value])

parseRFormat(instruction, parts) ==
  IF Len(parts) # 4 THEN Thrown("requires 3 operands (rd, rs1, rs2)")
  ELSE Assign(instruction, <<"rd", "rs1", "rs2">>,
         <<parseRegister(parts[2]), parseRegister(parts[3]), parseRegister(parts[4])>>)

parseIFormat(instruction, parts) ==
  IF Len(parts) # 4 THEN Thrown("requires 3 operands (rd, rs1, imm)")
  ELSE Assign(instruction, <<"rd", "rs1", "imm">>,
         <<parseRegister(parts[2]), parseRegister(parts[3]),
           parseImmediate(parts[4], 12)>>)

parseLoadFormat(instruction, parts) ==
  IF Len(parts) = 3 THEN Thrown("requires format: rd, imm(rs1) or rd, rs1, imm")
  ELSE IF Len(parts) = 4
    THEN Assign(instruction, <<"rd", "rs1", "imm">>,
           <<parseRegister(parts[2]), parseRegister(parts[3]),
             parseImmediate(parts[4], 12)>>)
  ELSE IF Len(parts) = 5
    THEN Assign(instruction, <<"rd", "imm", "rs1">>,
           <<parseRegister(parts[2]), parseImmediate(parts[3], 12),
             parseRegister(parts[4])>>)
  ELSE Thrown("invalid format")

parseStoreFormat(instruction, parts) ==
  IF Len(parts) = 4
    THEN Assign(instruction, <<"rs2", "rs1", "imm">>,
           <<parseRegister(parts[2]), parseRegister(parts[3]),
             parseImmediate(parts[4], 12)>>)
  ELSE IF Len(parts) = 5
    THEN Assign(instruction, <<"rs2", "imm", "rs1">>,
           <<parseRegister(parts[2]), parseImmediate(parts[3], 12),
             parseRegister(parts[4])>>)
  ELSE Thrown("invalid format")

\* the field an immediate operand sets, or its error
ImmediateTarget(v) == IF v.threw THEN v ELSE Returned([imm |-> v.value])

\* Target with the offset left in instructions
TargetInSlots(instruction, labels, part, bits) ==
  IF Join(part) \in DOMAIN labels
    THEN Returned([label |-> Join(part),
                   imm |-> labels[Join(part)] - instruction.index])
    ELSE ImmediateTarget(parseImmediate(part, bits))

\* a label operand or an immediate: the fields it sets
Target(instruction, labels, part, bits) ==
  IF Join(part) \in DOMAIN labels
    THEN Returned([label |-> Join(part),
                   imm |-> (labels[Join(part)] - instruction.index) * 4])
    ELSE ImmediateTarget(parseImmediate(part, bits))

\* the registers' fields and then the target's, or the first error
WithTarget(regs, t) ==
  IF regs.threw THEN regs
  ELSE IF t.threw THEN t
  ELSE Returned(regs.value @@ t.value)

parseBranchFormat(instruction, labels, parts) ==
  IF Len(parts) # 4 THEN Thrown("requires 3 operands (rs1, rs2, label/offset)")
  ELSE WithTarget(Assign(instruction, <<"rs1", "rs2">>,
                    <<parseRegister(parts[2]), parseRegister(parts[3])>>),
                  Target(instruction, labels, parts[4], 13))

parseJALFormat(instruction, labels, parts) ==
  IF Len(parts) = 2
    THEN WithTarget(Assign(instruction, <<"rd">>, <<Returned(1)>>),
                    Target(instruction, labels, parts[2], 21))
  ELSE IF Len(parts) = 3
    THEN WithTarget(Assign(instruction, <<"rd">>, <<parseRegister(parts[2])>>),
                    Target(instruction, labels, parts[3], 21))
  ELSE Thrown("requires 1 or 2 operands")

parseJALRFormat(instruction, parts) ==
  IF Len(parts) = 2
    THEN Assign(instruction, <<"rd", "rs1", "imm">>,
           <<Returned(1), parseRegister(parts[2]), Returned(0)>>)
  ELSE IF Len(parts) = 3
    THEN Assign(instruction, <<"rd", "rs1", "imm">>,
           <<parseRegister(parts[2]), parseRegister(parts[3]), Returned(0)>>)
  ELSE IF Len(parts) = 4
    THEN Assign(instruction, <<"rd", "rs1", "imm">>,
           <<parseRegister(parts[2]), parseRegister(parts[3]),
             parseImmediate(parts[4], 12)>>)
  ELSE Thrown("invalid format")

parseUFormat(instruction, parts) ==
  IF Len(parts) # 3 THEN Thrown("requires 2 operands (rd, imm)")
  ELSE Assign(instruction, <<"rd", "imm">>,
         <<parseRegister(parts[2]), parseImmediate(parts[3], 20)>>)

\* the switch of parseInstruction on instruction.format
ParseFormat(instruction, labels, parts) ==
  CASE instruction.format = "R" -> parseRFormat(instruction, parts)
    [] instruction.format = "I" -> parseIFormat(instruction, parts)
    [] instruction.format = "IL" -> parseLoadFormat(instruction, parts)
    [] instruction.format = "S" -> parseStoreFormat(instruction, parts)
    [] instruction.format = "SB" -> parseBranchFormat(instruction, labels, parts)
    [] instruction.format = "UJ" -> parseJALFormat(instruction, labels, parts)
    [] instruction.format = "JALR" -> parseJALRFormat(instruction, parts)
    [] instruction.format = "U" -> parseUFormat(instruction, parts)
    [] instruction.format = "HLT" -> Returned(instruction)

\* parseInstruction once the opcode is read
ParseOpcode(line, index, lineNum, labels, parts, opcode) ==
  IF opcode \notin AllOpcodes THEN Thrown("Unknown instruction")
  ELSE ParseFormat([opcode |-> opcode, format |-> instructionFormats(opcode),
                    index |-> index, lineNum |-> lineNum, original |-> line],
                   labels, parts)

\* parseInstruction once the line is split
ParseParts(line, index, lineNum, labels, parts) ==
  IF Len(parts) = 0 THEN Thrown("Empty instruction")
  ELSE ParseOpcode(line, index, lineNum, labels, parts, Join(toUpperCase(parts[1])))

\* Parser.parseInstruction(line, index, lineNum), with this.labels
parseInstruction(line, index, lineNum, labels) ==
  ParseParts(line, index, lineNum, labels, Tokens(line, <<>>))

(* ---- Parser.parse: two passes over the lines ---- *)
RECURSIVE WordPrefix(_)
\* the length of the longest prefix of word characters
WordPrefix(text) ==
  IF text # <<>> /\ Head(text) \in WordChars THEN 1 + WordPrefix(Tail(text)) ELSE 0

\* the match of /^(\w+):\s*(.*)/ when the word characters end at n
LabelAt(line, n) ==
  IF n >= 1 /\ Len(line) > n /\ line[n + 1] = ":"
    THEN [matched |-> TRUE, name |-> Join(SubSeq(line, 1, n)),
          rest |-> TrimLeft(Substring(line, n + 1))]
    ELSE [matched |-> FALSE, name |-> "", rest |-> <<>>]

\* line.match(/^(\w+):\s*(.*)/): the label name and the rest, when it matches
labelMatch(line) == LabelAt(line, WordPrefix(line))

\* line.match(/^\w+:\s*$/)
IsLabelOnly(line) ==
  labelMatch(line).matched /\ labelMatch(line).rest = <<>>

\* this.labels[name] = instructionIndex
WithLabel(labels, name, instructionIndex) ==
  [k \in (DOMAIN labels) \cup {name} |->
     IF k = name THEN instructionIndex ELSE labels[k]]

RECURSIVE FirstPass(_, _, _, _)
RECURSIVE FirstPassLine(_, _, _, _, _)
RECURSIVE FirstPassLabel(_, _, _, _, _)
\* the first loop of parse from line lineNum (counted from 1) on: the label
\* table, and the lines with every `label: instruction` line replaced by its
\* instruction
FirstPass(lines, lineNum, instructionIndex, labels) ==
  IF lineNum > Len(lines) THEN [lines |-> lines, labels |-> labels]
  ELSE FirstPassLine(lines, lineNum, instructionIndex, labels,
                     cleanLine(lines[lineNum]))

\* one iteration of the first loop, on the cleaned line
FirstPassLine(lines, lineNum, instructionIndex, labels, line) ==
  IF line = <<>> THEN FirstPass(lines, lineNum + 1, instructionIndex, labels)
  ELSE IF Includes(line, ":")
    THEN FirstPassLabel(lines, lineNum, instructionIndex, labels, labelMatch(line))
  ELSE FirstPass(lines, lineNum + 1, instructionIndex + 1, labels)

\* one iteration of the first loop, on a line with a colon and its match m
FirstPassLabel(lines, lineNum, instructionIndex, labels, m) ==
  IF ~m.matched
    THEN FirstPass(lines, lineNum + 1, instructionIndex + 1, labels)
  ELSE IF Trim(m.rest) # <<>>
    THEN FirstPass([lines EXCEPT ![lineNum] = Trim(m.rest)],
                   lineNum + 1, instructionIndex + 1,
                   WithLabel(labels, m.name, instructionIndex))
  ELSE FirstPass(lines, lineNum + 1, instructionIndex,
                 WithLabel(labels, m.name, instructionIndex))

\* parts = line.split(':'); parts[1].trim()   (parts[1] exists: line has a ':')
AfterColon(line) == Trim(SplitOn(line, ":", <<>>)[2])

RECURSIVE SecondPass(_, _, _, _)
RECURSIVE SecondPassLine(_, _, _, _, _)
RECURSIVE SecondPassInstruction(_, _, _, _, _)
RECURSIVE SecondPassResult(_, _, _, _, _)
\* the second loop of parse: the instruction records, or the first error
SecondPass(lines, lineNum, labels, instructions) ==
  IF lineNum > Len(lines) THEN Returned(instructions)
  ELSE SecondPassLine(lines, lineNum, labels, instructions,
                      cleanLine(lines[lineNum]))

\* one iteration of the second loop, on the cleaned line
SecondPassLine(lines, lineNum, labels, instructions, line) ==
  IF line = <<>> \/ IsLabelOnly(line)
    THEN SecondPass(lines, lineNum + 1, labels, instructions)
    ELSE SecondPassInstruction(lines, lineNum, labels, instructions,
           IF Includes(line, ":") THEN AfterColon(line) ELSE line)

\* one iteration of the second loop, on the text after the label
SecondPassInstruction(lines, lineNum, labels, instructions, instructionLine) ==
  IF instructionLine = <<>>
    THEN SecondPass(lines, lineNum + 1, labels, instructions)
    ELSE SecondPassResult(lines, lineNum, labels, instructions,
           parseInstruction(instructionLine, Len(instructions), lineNum, labels))

\* one iteration of the second loop, on the result r of parseInstruction
SecondPassResult(lines, lineNum, labels, instructions, r) ==
  IF r.threw
    THEN [threw |-> TRUE, error |-> r.error, line |-> lineNum]
    ELSE SecondPass(lines, lineNum + 1, labels, Append(instructions, r.value))

\* the second loop over what the first loop left
SecondPassOf(first) == SecondPass(first.lines, 1, first.labels, <<>>)

\* Parser.parse(code): Returned(instructions), or the error with its line
parse(code) == SecondPassOf(FirstPass(SplitOn(code, "\n", <<>>), 1, 0, NoCells))

\* the label table parse builds
labelsOf(code) == FirstPass(SplitOn(code, "\n", <<>>), 1, 0, NoCells).labels
(***************************************************************************)
(* State of the model.                                                     *)
(*   simulatorState  the controller's module-level state object            *)
(*   request         the HTTP request being handled, or None               *)
(*   response        the HTTP response on its way to the client, or None   *)
(*   app             the client's state: registers, memory, pc, halted of  *)
(*                   the last successful response (App.js useState)        *)
(*   running         executeProgram is inside its while loop               *)
(*   machine         a state object handed to Executor.execute directly    *)
(*   call            the call of Executor.execute the last step made, or   *)
(*                   None when it made none                                *)
(*   calls           the number of calls made on machine                   *)
(*   restored        the last getState / setState round trip               *)
(*   parsed          the last line given to parseInstruction, its result   *)
(***************************************************************************)
VARIABLES simulatorState, request, response, app, running,
          machine, call, calls, restored, parsed

vars == <<simulatorState, request, response, app, running,
          machine, call, calls, restored, parsed>>

controllerVars == <<simulatorState, request, response, app, running>>

machineVars == <<machine, calls, restored>>

(* ---- source texts sent by the client ---- *)
\* the example program of App.js, without its comments:
\*   ADDI x1, x0, 10
\*   ADDI x2, x0, 20
\*   ADD x3, x1, x2
\*   SW x3, x0, 100
\*   HLT
SumProgram ==
  <<"A", "D", "D", "I", " ", "x", "1", ",", " ", "x", "0", ",", " ", "1",
    "0", "\n", "A", "D", "D", "I", " ", "x", "2", ",", " ", "x", "0", ",",
    " ", "2", "0", "\n", "A", "D", "D", " ", "x", "3", ",", " ", "x", "1",
    ",", " ", "x", "2", "\n", "S", "W", " ", "x", "3", ",", " ", "x", "0",
    ",", " ", "1", "0", "0", "\n", "H", "L", "T">>

\* stores at unaligned addresses, no HLT:
\*   ADDI x1, x0, 7
\*   SW x1, x0, 2
\*   SH x1, x0, 1
\*   SB x1, x0, 5
UnalignedProgram ==
  <<"A", "D", "D", "I", " ", "x", "1", ",", " ", "x", "0", ",", " ", "7",
    "\n", "S", "W", " ", "x", "1", ",", " ", "x", "0", ",", " ", "2", "\n",
    "S", "H", " ", "x", "1", ",", " ", "x", "0", ",", " ", "1", "\n", "S",
    "B", " ", "x", "1", ",", " ", "x", "0", ",", " ", "5">>

\* accesses below and past the memory region:
\*   ADDI x1, x0, 9
\*   SB x1, x0, -4
\*   LW x2, x0, -4
\*   SW x1, x0, 1024
OutOfRangeProgram ==
  <<"A", "D", "D", "I", " ", "x", "1", ",", " ", "x", "0", ",", " ", "9",
    "\n", "S", "B", " ", "x", "1", ",", " ", "x", "0", ",", " ", "-", "4",
    "\n", "L", "W", " ", "x", "2", ",", " ", "x", "0", ",", " ", "-", "4",
    "\n", "S", "W", " ", "x", "1", ",", " ", "x", "0", ",", " ", "1", "0",
    "2", "4">>

\* a store read back by a later load:
\*   ADDI x1, x0, 5
\*   SB x1, x0, 8
\*   LB x2, x0, 8
\*   HLT
StoreLoadProgram ==
  <<"A", "D", "D", "I", " ", "x", "1", ",", " ", "x", "0", ",", " ", "5",
    "\n", "S", "B", " ", "x", "1", ",", " ", "x", "0", ",", " ", "8", "\n",
    "L", "B", " ", "x", "2", ",", " ", "x", "0", ",", " ", "8", "\n", "H",
    "L", "T">>

\* a branch to before the first instruction:
\*   BEQ x0, x0, -8
BackwardProgram ==
  <<"B", "E", "Q", " ", "x", "0", ",", " ", "x", "0", ",", " ", "-", "8">>

\* a taken branch over one instruction:
\*   ADDI x1, x0, 1
\*   BNE x1, x0, end
\*   ADDI x2, x0, 1
\*   end: HLT
LabelProgram ==
  <<"A", "D", "D", "I", " ", "x", "1", ",", " ", "x", "0", ",", " ", "1",
    "\n", "B", "N", "E", " ", "x", "1", ",", " ", "x", "0", ",", " ", "e",
    "n", "d", "\n", "A", "D", "D", "I", " ", "x", "2", ",", " ", "x", "0",
    ",", " ", "1", "\n", "e", "n", "d", ":", " ", "H", "L", "T">>

\* an immediate out of the 12-bit range:
\*   ADDI x1, x0, 1
\*   ADDI x1, x0, 2048
RangeErrorProgram ==
  <<"A", "D", "D", "I", " ", "x", "1", ",", " ", "x", "0", ",", " ", "1",
    "\n", "A", "D", "D", "I", " ", "x", "1", ",", " ", "x", "0", ",", " ",
    "2", "0", "4", "8">>

\* a loop that never ends:
\*   top: ADDI x1, x0, 1
\*   BEQ x0, x0, top
LoopProgram ==
  <<"t", "o", "p", ":", " ", "A", "D", "D", "I", " ", "x", "1", ",", " ",
    "x", "0", ",", " ", "1", "\n", "B", "E", "Q", " ", "x", "0", ",", " ",
    "x", "0", ",", " ", "t", "o", "p">>

\* a shift amount the decoder rejects, after an instruction that executes:
\*   ADDI x1, x0, 1
\*   SLLI x1, x1, 40
ShiftErrorProgram ==
  <<"A", "D", "D", "I", " ", "x", "1", ",", " ", "x", "0", ",", " ", "1",
    "\n", "S", "L", "L", "I", " ", "x", "1", ",", " ", "x", "1", ",", " ",
    "4", "0">>

Sources ==
  {SumProgram, UnalignedProgram, OutOfRangeProgram, StoreLoadProgram,
   BackwardProgram, LabelProgram, RangeErrorProgram, LoopProgram,
   ShiftErrorProgram}

\* parser.parse(code) for the texts of Sources, computed once
ParsedSources == [code \in Sources |-> parse(code)]

Parse(code) == ParsedSources[code]

(* ---- the controller ---- *)
Min(a, b) == IF a < b THEN a ELSE b

\* memory.slice(0, 256): the elements, without the properties of the object
Slice(memory) ==
  [kind |-> "Array", length |-> Min(ResponseMemorySize, memory.length),
   cells |-> [k \in {x \in DOMAIN memory.cells : x < ResponseMemorySize} |->
                memory.cells[k]],
   props |-> NoCells]

\* the state object of a success response
StateOf(state) ==
  [registers |-> state.registers, memory |-> Slice(state.memory),
   pc |-> state.pc, halted |-> state.halted]

\* res.json({success: true, state}), answering req
Success(req, state) == [success |-> TRUE, state |-> StateOf(state), request |-> req]

\* res.status(400).json({success: false, error: error.message}); line is the
\* source line the message starts with ("Line N: ..."), 0 when it names none
Failure(req, r) ==
  [success |-> FALSE, error |-> r.error,
   line |-> IF "line" \in DOMAIN r THEN r.line ELSE 0, request |-> req]

\* instructions[pc]: undefined outside the array
InstructionAt(instructions, pc) ==
  IF pc >= 0 /\ pc < Len(instructions) THEN instructions[pc + 1] ELSE None

\* executor.execute(decoded, state), unless decode threw
ExecuteDecoded(decoded, state) ==
  IF decoded.threw THEN decoded ELSE execute(decoded.value, state)

\* the state object after decoder.decode(instructions[pc]): the array holds
\* the record decode was given, not a copy of it
AfterDecode(state) ==
  IF state.pc >= 0 /\ state.pc < Len(state.instructions)
    THEN [state EXCEPT !.instructions[state.pc + 1] = RecordAfterDecode(@)]
    ELSE state

\* decoder.decode(instruction); executor.execute(decoded, state)
DecodeAndExecute(state) ==
  ExecuteDecoded(decode(InstructionAt(state.instructions, state.pc)),
                 AfterDecode(state))

\* what a call of DecodeAndExecute on state did: the instruction record, the
\* state before it, and whether it threw
CallOn(state, r) ==
  [instruction |-> InstructionAt(state.instructions, state.pc),
   before |-> state, threw |-> r.threw]

\* executeProgram without its reset
RunParsedKeepingState(p) ==
  IF p.threw
    THEN /\ response' = Failure(request, p)
         /\ request' = None
         /\ running' = FALSE
         /\ UNCHANGED simulatorState
    ELSE /\ simulatorState' = [simulatorState EXCEPT !.instructions = p.value]
         /\ running' = TRUE
         /\ UNCHANGED <<request, response>>

\* executeProgram after parser.parse returned or threw p
RunParsed(p) ==
  IF p.threw
    THEN /\ simulatorState' = NewPlainState
         /\ response' = Failure(request, p)
         /\ request' = None
         /\ running' = FALSE
    ELSE /\ simulatorState' = [NewPlainState EXCEPT !.instructions = p.value]
         /\ running' = TRUE
         /\ UNCHANGED <<request, response>>

\* executeProgram up to its while loop: reset, then parse
RunStart ==
  /\ request # None /\ request.kind = "execute" /\ ~running
  /\ RunParsed(Parse(request.code))
  /\ call' = None
  /\ UNCHANGED <<app, machineVars, parsed>>

\* the while loop of executeProgram, undoing the run when execute throws
RunExecutedRollingBack(r) ==
  /\ call' = CallOn(simulatorState, r)
  /\ IF r.threw
       THEN /\ response' = Failure(request, r)
            /\ request' = None
            /\ running' = FALSE
            /\ simulatorState' =
                 [NewPlainState EXCEPT !.instructions = simulatorState.instructions]
       ELSE /\ simulatorState' = r.value
            /\ UNCHANGED <<request, response, running>>

\* the while loop of executeProgram after execute returned or threw r
RunExecuted(r) ==
  /\ call' = CallOn(simulatorState, r)
  /\ IF r.threw
       THEN /\ response' = Failure(request, r)
            /\ request' = None
            /\ running' = FALSE
            /\ UNCHANGED simulatorState
       ELSE /\ simulatorState' = r.value
            /\ UNCHANGED <<request, response, running>>

\* one iteration of the while loop of executeProgram
RunLoop ==
  /\ running
  /\ ~simulatorState.halted
  /\ simulatorState.pc < Len(simulatorState.instructions)
  /\ RunExecuted(DecodeAndExecute(simulatorState))
  /\ UNCHANGED <<app, machineVars, parsed>>

\* the loop of executeProgram ends: the success response
RunRespond ==
  /\ running
  /\ simulatorState.halted \/ simulatorState.pc >= Len(simulatorState.instructions)
  /\ response' = Success(request, simulatorState)
  /\ request' = None
  /\ running' = FALSE
  /\ UNCHANGED <<simulatorState, call, app, machineVars, parsed>>

\* the state object stepExecution works on: currentState when the request
\* carries one
Adopted(state, req) ==
  IF "currentState" \in DOMAIN req THEN req.currentState ELSE state

\* stepExecution after execute returned or threw r on the state loaded
StepExecuted(loaded, r) ==
  IF r.threw
    THEN r @@ [state |-> loaded, call |-> CallOn(loaded, r)]
    ELSE [threw |-> FALSE, state |-> r.value, call |-> CallOn(loaded, r)]

\* stepExecution from its second `if` on, without the test of halted
StepLoadedWhenHalted(loaded) ==
  IF loaded.pc < Len(loaded.instructions)
    THEN StepExecuted(loaded, DecodeAndExecute(loaded))
    ELSE [threw |-> FALSE, state |-> loaded, call |-> None]

\* stepExecution from its second `if` on
StepLoaded(loaded) ==
  IF ~loaded.halted /\ loaded.pc < Len(loaded.instructions)
    THEN StepExecuted(loaded, DecodeAndExecute(loaded))
    ELSE [threw |-> FALSE, state |-> loaded, call |-> None]

\* stepExecution with the instructions p: those of the state, or what
\* parser.parse returned or threw
StepParsed(state, p) ==
  IF p.threw THEN p @@ [state |-> state, call |-> None]
  ELSE StepLoaded([state EXCEPT !.instructions = p.value])

\* stepExecution after `simulatorState = currentState`:
\*   threw   an exception reached the catch block (error, line)
\*   state   the state object afterwards
\*   call    the call of execute it made, None when it made none
StepOn(state, code) ==
  IF "instructions" \notin DOMAIN state
    THEN [threw |-> TRUE, error |-> "Cannot read properties of undefined",
          state |-> state, call |-> None]
  ELSE StepParsed(state, IF Len(state.instructions) = 0
                           THEN Parse(code)
                           ELSE Returned(state.instructions))

\* the response of stepExecution and the state it leaves
StepRespond(r) ==
  /\ simulatorState' = r.state
  /\ call' = r.call
  /\ response' = IF r.threw THEN Failure(request, r)
                            ELSE Success(request, r.state)

\* stepExecution
Step ==
  /\ request # None /\ request.kind = "step"
  /\ StepRespond(StepOn(Adopted(simulatorState, request), request.code))
  /\ request' = None
  /\ UNCHANGED <<app, running, machineVars, parsed>>

\* reset that keeps the instructions and PC
ResetKeepingProgram ==
  /\ request # None /\ request.kind = "reset"
  /\ simulatorState' = [simulatorState EXCEPT !.registers = ZeroRegisters,
                                              !.halted = FALSE]
  /\ response' = Success(request, simulatorState')
  /\ request' = None
  /\ call' = None
  /\ UNCHANGED <<app, running, machineVars, parsed>>

\* reset
Reset ==
  /\ request # None /\ request.kind = "reset"
  /\ simulatorState' = NewPlainState
  /\ response' = Success(request, NewPlainState)
  /\ request' = None
  /\ call' = None
  /\ UNCHANGED <<app, running, machineVars, parsed>>

(* ---- the client ---- *)
\* new Array(1024).fill(0), as JSON
ZeroMemory == NewPlainState.memory

\* useState([]) of App.js
EmptyArray == [kind |-> "Array", length |-> 0, cells |-> NoCells, props |-> NoCells]

\* no Step has been sent since the last Reset, or the Steps sent since then
\* did not all carry the same source and thread the state the same way
NoChain == [stage |-> "none"]

\* the state of App.js before any request, with
\*   snapshot  a success response has been received
\*   chain     the Steps sent since the last Reset
NewApp ==
  [registers |-> ZeroRegisters, memory |-> EmptyArray, pc |-> 0,
   halted |-> FALSE, snapshot |-> FALSE, chain |-> NoChain]

\* how a Step request gets its currentState:
\*   "default"   it carries none
\*   "returned"  the state object of the last success response, as it came
\*   "frontend"  the object handleStep of App.js builds from that state
StepModes == {"default", "returned", "frontend"}

\* the currentState object of handleStep: the reduce over memory, an array
\* of numbers, sets acc[undefined] only, which JSON leaves out
FrontendState(a) ==
  [kind |-> "plain", registers |-> a.registers, memory |-> ZeroMemory,
   pc |-> a.pc, instructions |-> <<>>, halted |-> a.halted]

\* the state object of the last success response
ReturnedState(a) ==
  [kind |-> "plain", registers |-> a.registers, memory |-> a.memory,
   pc |-> a.pc, halted |-> a.halted]

StepRequest(code, mode) ==
  IF mode = "default" THEN [kind |-> "step", code |-> code]
  ELSE [kind |-> "step", code |-> code,
        currentState |-> IF mode = "frontend" THEN FrontendState(app)
                                              ELSE ReturnedState(app)]

\* the chain after one more Step of this source and mode
Chained(chain, code, mode) ==
  IF mode = "default" THEN NoChain
  ELSE IF chain.stage = "reset" \/ chain = [stage |-> "stepping", code |-> code, mode |-> mode]
    THEN [stage |-> "stepping", code |-> code, mode |-> mode]
  ELSE NoChain

Idle == request = None /\ response = None /\ ~running

\* POST /execute {code}
SendRun(code) ==
  /\ Idle
  /\ request' = [kind |-> "execute", code |-> code]
  /\ app' = [app EXCEPT !.chain = NoChain]
  /\ UNCHANGED <<simulatorState, response, running, call, machineVars, parsed>>

\* POST /step {code, currentState}; the Step button of App.js is disabled
\* when halted
SendStep(code, mode) ==
  /\ Idle
  /\ mode = "frontend" => ~app.halted
  /\ mode = "returned" => app.snapshot
  /\ request' = StepRequest(code, mode)
  /\ app' = [app EXCEPT !.chain = Chained(app.chain, code, mode)]
  /\ UNCHANGED <<simulatorState, response, running, call, machineVars, parsed>>

\* state objects a caller of the API builds itself: one whose registers[0]
\* is 7, and one that is halted
Snapshots ==
  {[kind |-> "plain", registers |-> [ZeroRegisters EXCEPT ![0] = 7],
    memory |-> ZeroMemory, pc |-> 0, instructions |-> <<>>, halted |-> FALSE],
   [kind |-> "plain", registers |-> [ZeroRegisters EXCEPT ![1] = 5],
    memory |-> ZeroMemory, pc |-> 1, instructions |-> <<>>, halted |-> TRUE]}

\* POST /step {code, currentState} with a state object the caller built
SendStepWith(code, snapshot) ==
  /\ Idle
  /\ request' = [kind |-> "step", code |-> code, currentState |-> snapshot]
  /\ app' = [app EXCEPT !.chain = NoChain]
  /\ UNCHANGED <<simulatorState, response, running, call, machineVars, parsed>>

\* POST /reset
SendReset ==
  /\ Idle
  /\ request' = [kind |-> "reset"]
  /\ app' = [app EXCEPT !.chain = NoChain]
  /\ UNCHANGED <<simulatorState, response, running, call, machineVars, parsed>>

\* the response arrives: on success the client keeps the state object
Receive ==
  /\ response # None
  /\ app' = IF response.success
              THEN [registers |-> response.state.registers,
                    memory |-> response.state.memory,
                    pc |-> response.state.pc,
                    halted |-> response.state.halted,
                    snapshot |-> TRUE,
                    chain |-> IF response.request.kind = "reset"
                                THEN [stage |-> "reset"] ELSE app.chain]
              ELSE [app EXCEPT !.chain = NoChain]
  /\ response' = None
  /\ UNCHANGED <<simulatorState, request, running, call, machineVars, parsed>>

Init ==
  /\ simulatorState = NewPlainState
  /\ request = None
  /\ response = None
  /\ app = NewApp
  /\ running = FALSE
  /\ call = None
  /\ machine = NewPlainState
  /\ calls = 0
  /\ restored = None
  /\ parsed = None

Next ==
  \/ \E code \in Sources : SendRun(code)
  \/ \E code \in Sources, mode \in StepModes : SendStep(code, mode)
  \/ \E code \in Sources, snapshot \in Snapshots : SendStepWith(code, snapshot)
  \/ SendReset
  \/ Receive
  \/ RunStart
  \/ RunLoop
  \/ RunRespond
  \/ Step
  \/ Reset

Spec == Init /\ [][Next]_vars

(***************************************************************************)
(* Properties of Run, Step and Reset.                                      *)
(***************************************************************************)
\* the most iterations of the while loop of executeProgram followed
MaxRunSteps == 8

\* the while loop of executeProgram, from state; a loop that has not ended
\* after fuel iterations has no outcome
RECURSIVE RunFrom(_, _)
RECURSIVE RunOn(_, _)
RunFrom(state, fuel) ==
  IF state.halted \/ state.pc >= Len(state.instructions) THEN Returned(state)
  ELSE IF fuel = 0 THEN Thrown("the loop has not ended")
  ELSE RunOn(DecodeAndExecute(state), fuel)

\* the while loop after execute returned or threw r
RunOn(r, fuel) == IF r.threw THEN r ELSE RunFrom(r.value, fuel - 1)

\* executeProgram after parser.parse returned or threw p
RunAll(p) ==
  IF p.threw THEN p
  ELSE RunFrom([NewPlainState EXCEPT !.instructions = p.value], MaxRunSteps)

\* executeProgram on code: Returned(state) with the state object it ends
\* with, or Thrown
RunOutcomes == [code \in Sources |-> RunAll(Parse(code))]

RunOutcome(code) == RunOutcomes[code]

\* the number of instructions of a source that parses
InstructionCount(code) == Len(Parse(code).value)

\* halted, or PC outside [0, count)
Finished(state, count) == state.halted \/ state.pc < 0 \/ state.pc >= count

\* the response answers a Step of a chain: Steps sent since a Reset, all with
\* the same source and each carrying the state the previous response returned
StepOfChain ==
  /\ response # None
  /\ response.request.kind = "step"
  /\ app.chain.stage = "stepping"

\* C1: step-mode equivalence.  For a source on which Run succeeds, every
\* Step of a chain from a Reset state succeeds, and the Step that ends the
\* chain (halted, or PC out of range) returns the registers, memory, PC and
\* halted flag that one Run of the source returns.
C1_StepModeEquivalence ==
  (StepOfChain /\ ~RunOutcome(response.request.code).threw) =>
    /\ response.success
    /\ Finished(response.state, InstructionCount(response.request.code)) =>
         response.state = StateOf(RunOutcome(response.request.code).value)

\* the same, for the chains that carry the state object as App.js rebuilds it
C1_FrontendChain ==
  (StepOfChain /\ app.chain.mode = "frontend"
     /\ ~RunOutcome(response.request.code).threw) =>
    /\ response.success
    /\ Finished(response.state, InstructionCount(response.request.code)) =>
         response.state = StateOf(RunOutcome(response.request.code).value)

\* the decoded form of the instruction of a call
Decoded(c) == decode(c.instruction)

\* the call executed an instruction with one of these opcodes
Executes(c, ops) ==
  /\ "instruction" \in DOMAIN c
  /\ ~Decoded(c).threw
  /\ Decoded(c).value.opcode \in ops

\* the effective address of the load or store of a call
Address(c) == EffectiveAddress(Decoded(c).value, MakeSim(c.before))

\* the number of bytes the load or store of a call accesses
Width(c) ==
  CASE Decoded(c).value.opcode \in {"LB", "LBU", "SB"} -> 1
    [] Decoded(c).value.opcode \in {"LH", "LHU", "SH"} -> 2
    [] OTHER -> 4

\* the access of a call lies inside the memory region
InRange(c) ==
  Address(c) >= 0 /\ Address(c) + Width(c) <= c.before.memory.length

\* C2: a store word at an address that is not a multiple of 4 and a store
\* halfword at an odd address throw and leave memory as it was; a store byte
\* at an address inside the memory region does not throw.
C2_UnalignedStoresFail ==
  /\ (Executes(call, {"SW"}) /\ Address(call) % 4 # 0) =>
       (call.threw /\ simulatorState.memory = call.before.memory)
  /\ (Executes(call, {"SH"}) /\ Address(call) % 2 # 0) =>
       (call.threw /\ simulatorState.memory = call.before.memory)
  /\ (Executes(call, {"SB"}) /\ InRange(call)) => ~call.threw

\* C3: a load or store whose address is negative, or whose last byte lies
\* past the end of the memory region, throws; an instruction that does not
\* throw leaves the size of the memory region as it was and sets nothing
\* outside its elements.
C3_AccessesAreBounded ==
  /\ (Executes(call, LoadOpcodes \cup StoreOpcodes) /\ ~InRange(call)) =>
       call.threw
  /\ (Executes(call, AllOpcodes) /\ ~call.threw) =>
       /\ simulatorState.memory.length = call.before.memory.length
       /\ simulatorState.memory.props = call.before.memory.props

\* C4: the state of every success response to a Run or a Step has PC >= 0,
\* and PC below the number of instructions or halted true.
C4_PcInRangeOrHalted ==
  (response # None /\ response.success
     /\ response.request.kind \in {"execute", "step"}) =>
    /\ response.state.pc >= 0
    /\ \/ response.state.pc < Len(simulatorState.instructions)
       \/ response.state.halted

\* the state object a Step request finds, once its instructions are loaded
Found ==
  LET state == Adopted(simulatorState, request)
  IN  IF Len(state.instructions) = 0
        THEN [state EXCEPT !.instructions = Parse(request.code).value]
        ELSE state

\* a Step request for a state that is halted or has PC out of range
StepAtEnd ==
  /\ request # None /\ request.kind = "step"
  /\ "instructions" \in DOMAIN Adopted(simulatorState, request)
  /\ ~Parse(request.code).threw
  /\ Finished(Found, Len(Found.instructions))

\* C5: a Step for a state that is halted or has PC out of range calls
\* execute for no instruction and succeeds, returning the registers, memory
\* and PC of that state with halted true.
C5_StepAtEndIsNoOp ==
  [][(StepAtEnd /\ Step) =>
       /\ call' = None
       /\ response'.success
       /\ response'.state = [StateOf(Found) EXCEPT !.halted = TRUE]]_vars

\* a Step request for a state object that is halted
StepOnHalted ==
  /\ request # None /\ request.kind = "step"
  /\ Adopted(simulatorState, request).halted

\* C14: HALTED is terminal.  A Step for a halted state executes no
\* instruction and leaves the registers, the memory and PC of that state as
\* they are and halted true; a success response carries that state.
C14_HaltedIsTerminal ==
  [][(StepOnHalted /\ Step) =>
       /\ call' = None
       /\ simulatorState'.registers = Adopted(simulatorState, request).registers
       /\ simulatorState'.memory = Adopted(simulatorState, request).memory
       /\ simulatorState'.pc = Adopted(simulatorState, request).pc
       /\ simulatorState'.halted
       /\ response'.success =>
            response'.state = StateOf(Adopted(simulatorState, request))]_vars

\* a Step answered for a halted state: it executed nothing
C14_Witness ==
  /\ response # None /\ response.request.kind = "step"
  /\ response.success /\ response.state.halted
  /\ simulatorState.halted /\ simulatorState.pc < Len(simulatorState.instructions)
  /\ call = None

\* the response of executeProgram for the outcome r of its run
RunResponse(req, r) == IF r.threw THEN Failure(req, r) ELSE Success(req, r.value)

\* the response of stepExecution for the outcome r of its step
StepResponse(req, r) ==
  IF r.threw THEN Failure(req, r) ELSE Success(req, r.state)

\* the response to a Run, or to a Step that carries a state object, computed
\* from the request alone
ResponseTo(req) ==
  IF req.kind = "execute"
    THEN RunResponse(req, RunOutcome(req.code))
    ELSE StepResponse(req, StepOn(req.currentState, req.code))

\* C16: the response to a Run, and to a Step that carries a state object, is
\* a function of the request: it is the same whatever requests came before
\* and whatever the process-wide state holds.
C16_ResponseOfRequestAlone ==
  (/\ response # None
   /\ \/ response.request.kind = "execute"
      \/ /\ response.request.kind = "step"
         /\ "currentState" \in DOMAIN response.request) =>
    response = ResponseTo(response.request)

\* a Run answered after earlier requests that left other registers
C16_Witness ==
  /\ response # None /\ response.request.kind = "execute"
  /\ response.success
  /\ app.snapshot
  /\ app.registers # response.state.registers

\* C17: every failure response of Run names the 1-based source line of the
\* offending instruction, whether parsing, decoding or executing failed.
C17_RunFailureNamesLine ==
  (response # None /\ ~response.success /\ response.request.kind = "execute") =>
    response.line >= 1

\* a call of decode and execute that failed
FailedCall == "instruction" \in DOMAIN call /\ call.threw

\* C18: when decoding or executing an instruction fails, the registers, the
\* memory, PC and the halted flag are those of just before the instruction,
\* which hold the changes of the instructions executed before it.
C18_FailureLeavesState ==
  FailedCall =>
    /\ simulatorState.registers = call.before.registers
    /\ simulatorState.memory = call.before.memory
    /\ simulatorState.pc = call.before.pc
    /\ simulatorState.halted = call.before.halted

\* a Run that failed at its second instruction: the register the first one
\* set is still set
C18_Witness ==
  /\ FailedCall
  /\ response # None /\ ~response.success /\ response.request.kind = "execute"
  /\ call.before.pc = 1
  /\ simulatorState.registers[1] = 1

\* an array of n zero bytes with nothing set beside its elements
ZeroBytes(memory, n) ==
  /\ memory.length = n
  /\ \A k \in DOMAIN memory.cells : memory.cells[k] = 0
  /\ DOMAIN memory.props = {}

\* C19: after Reset the server-held state has 32 registers equal to 0, every
\* memory byte 0, PC 0, halted false and no instructions, and the response
\* carries the zeroed state.
C19_ResetZeroes ==
  (response # None /\ response.request.kind = "reset") =>
    /\ \A r \in 0..31 : simulatorState.registers[r] = 0
    /\ DOMAIN simulatorState.registers = 0..31
    /\ ZeroBytes(simulatorState.memory, 1024)
    /\ simulatorState.pc = 0 /\ ~simulatorState.halted
    /\ simulatorState.instructions = <<>>
    /\ response.success
    /\ \A r \in 0..31 : response.state.registers[r] = 0
    /\ ZeroBytes(response.state.memory, 256)
    /\ response.state.pc = 0 /\ ~response.state.halted

\* a Reset answered after a Run that had set registers
C19_Witness ==
  /\ response # None /\ response.request.kind = "reset"
  /\ app.snapshot /\ app.registers[1] # 0 /\ app.pc > 0

\* C20: element 0 of the registers of every state returned by Run, Step or
\* Reset is 0, also when the Step was given a state object.
C20_RegisterZeroReturned ==
  (response # None /\ response.success) => response.state.registers[0] = 0

(***************************************************************************)
(* Run alone, with the loop of executeProgram running to its end.          *)
(***************************************************************************)
RunNext ==
  \/ \E code \in Sources : SendRun(code)
  \/ Receive
  \/ RunStart
  \/ RunLoop
  \/ RunRespond

\* the test of the while loop of executeProgram
LoopContinues ==
  /\ running
  /\ ~simulatorState.halted
  /\ simulatorState.pc < Len(simulatorState.instructions)

\* the handler is not left half way: while the test of the loop holds the next
\* iteration runs.  This is weak fairness of RunLoop, whose enabling condition
\* is LoopContinues.
RunLoopFair == []<>(~LoopContinues) \/ []<><<RunLoop>>_vars

SpecRun ==
  /\ Init /\ [][RunNext]_vars
  /\ RunLoopFair /\ WF_vars(RunRespond)

\* C15: every Run terminates: the loop of executeProgram reaches a halted
\* state, a PC outside the program, or an error.
C15_RunTerminates == running ~> ~running

\* the same for the sources other than the loop: their runs end
C15_OtherRunsTerminate ==
  (running /\ request.code # LoopProgram) ~> ~running

\* the response answers a Run of the example program of App.js
SumRun ==
  /\ response # None
  /\ response.request.kind = "execute"
  /\ response.request.code = SumProgram

\* C21: Run of ADDI x1, x0, 10 / ADDI x2, x0, 20 / ADD x3, x1, x2 /
\* SW x3, x0, 100 / HLT succeeds with x1 = 10, x2 = 20, x3 = 30, memory
\* bytes 100..103 equal to 30, 0, 0, 0, every other register and returned
\* memory byte 0, halted true and PC 4.
C21_SumScenario ==
  SumRun =>
    /\ response.success
    /\ \A r \in 0..31 :
         response.state.registers[r] =
           CASE r = 1 -> 10 [] r = 2 -> 20 [] r = 3 -> 30 [] OTHER -> 0
    /\ response.state.memory.length = ResponseMemorySize
    /\ \A a \in 0..(ResponseMemorySize - 1) :
         Cell(response.state.memory, a) = IF a = 100 THEN 30 ELSE 0
    /\ response.state.halted
    /\ response.state.pc = 4

\* the Run of the example program answered, after an earlier request had
\* left other registers in the client
C21_Witness ==
  /\ SumRun
  /\ response.success
  /\ response.state.registers[3] = 30
  /\ app.snapshot
  /\ app.registers[3] # 30

\* the last call of decode and execute was an HLT
HltExecuted == Executes(call, {"HLT"}) /\ ~call.threw

\* C22: executing HLT sets halted and leaves PC, every register and every
\* memory byte as they were, so a Run that ends on an HLT at index k returns
\* PC = k.
C22_HltKeepsPc ==
  /\ HltExecuted =>
       /\ simulatorState.halted
       /\ simulatorState.pc = call.before.pc
       /\ simulatorState.registers = call.before.registers
       /\ simulatorState.memory = call.before.memory
  /\ (/\ HltExecuted
      /\ response # None /\ response.request.kind = "execute") =>
       /\ response.success
       /\ response.state.halted
       /\ response.state.pc = call.before.pc
       /\ response.state.pc = call.instruction.index

\* a Run answered that ended on an HLT below the end of a program that had
\* written registers and memory
C22_Witness ==
  /\ HltExecuted
  /\ response # None /\ response.request.kind = "execute"
  /\ call.before.pc = 3
  /\ call.before.registers[1] = 5
  /\ Cell(call.before.memory, 8) = 5
  /\ response.state.pc = 3

\* the lines of the instructions executed on machine
InstructionLines ==
  {
    \* ADD x3, x1, x2
    <<"A", "D", "D", " ", "x", "3", ",", " ", "x", "1", ",", " ", "x", "2">>,
    \* SUB x3, x1, x2
    <<"S", "U", "B", " ", "x", "3", ",", " ", "x", "1", ",", " ", "x", "2">>,
    \* SLL x3, x1, x2
    <<"S", "L", "L", " ", "x", "3", ",", " ", "x", "1", ",", " ", "x", "2">>,
    \* SLT x3, x1, x2
    <<"S", "L", "T", " ", "x", "3", ",", " ", "x", "1", ",", " ", "x", "2">>,
    \* SLTU x3, x1, x2
    <<"S", "L", "T", "U", " ", "x", "3", ",", " ", "x", "1", ",", " ", "x", "2">>,
    \* XOR x3, x1, x2
    <<"X", "O", "R", " ", "x", "3", ",", " ", "x", "1", ",", " ", "x", "2">>,
    \* SRL x3, x1, x2
    <<"S", "R", "L", " ", "x", "3", ",", " ", "x", "1", ",", " ", "x", "2">>,
    \* SRA x3, x1, x2
    <<"S", "R", "A", " ", "x", "3", ",", " ", "x", "1", ",", " ", "x", "2">>,
    \* OR x3, x1, x2
    <<"O", "R", " ", "x", "3", ",", " ", "x", "1", ",", " ", "x", "2">>,
    \* AND x3, x1, x2
    <<"A", "N", "D", " ", "x", "3", ",", " ", "x", "1", ",", " ", "x", "2">>,
    \* ADDI x3, x1, 1
    <<"A", "D", "D", "I", " ", "x", "3", ",", " ", "x", "1", ",", " ", "1">>,
    \* ADDI x1, x0, -1
    <<"A", "D", "D", "I", " ", "x", "1", ",", " ", "x", "0", ",", " ", "-", "1">>,
    \* SLTI x3, x1, 0
    <<"S", "L", "T", "I", " ", "x", "3", ",", " ", "x", "1", ",", " ", "0">>,
    \* SLTIU x3, x1, 1
    <<"S", "L", "T", "I", "U", " ", "x", "3", ",", " ", "x", "1", ",", " ", "1">>,
    \* XORI x3, x1, -1
    <<"X", "O", "R", "I", " ", "x", "3", ",", " ", "x", "1", ",", " ", "-", "1">>,
    \* ORI x3, x1, 5
    <<"O", "R", "I", " ", "x", "3", ",", " ", "x", "1", ",", " ", "5">>,
    \* ANDI x3, x1, 255
    <<"A", "N", "D", "I", " ", "x", "3", ",", " ", "x", "1", ",", " ", "2", "5", "5">>,
    \* SLLI x3, x1, 1
    <<"S", "L", "L", "I", " ", "x", "3", ",", " ", "x", "1", ",", " ", "1">>,
    \* SRLI x1, x1, 1
    <<"S", "R", "L", "I", " ", "x", "1", ",", " ", "x", "1", ",", " ", "1">>,
    \* SRAI x3, x1, 1
    <<"S", "R", "A", "I", " ", "x", "3", ",", " ", "x", "1", ",", " ", "1">>,
    \* LB x3, x0, 8
    <<"L", "B", " ", "x", "3", ",", " ", "x", "0", ",", " ", "8">>,
    \* LH x3, x0, 8
    <<"L", "H", " ", "x", "3", ",", " ", "x", "0", ",", " ", "8">>,
    \* LW x3, x0, 8
    <<"L", "W", " ", "x", "3", ",", " ", "x", "0", ",", " ", "8">>,
    \* LBU x3, x0, 8
    <<"L", "B", "U", " ", "x", "3", ",", " ", "x", "0", ",", " ", "8">>,
    \* LHU x3, x0, 8
    <<"L", "H", "U", " ", "x", "3", ",", " ", "x", "0", ",", " ", "8">>,
    \* SB x1, x0, 8
    <<"S", "B", " ", "x", "1", ",", " ", "x", "0", ",", " ", "8">>,
    \* SH x1, x0, 8
    <<"S", "H", " ", "x", "1", ",", " ", "x", "0", ",", " ", "8">>,
    \* SW x1, x0, 8
    <<"S", "W", " ", "x", "1", ",", " ", "x", "0", ",", " ", "8">>,
    \* LUI x3, 1
    <<"L", "U", "I", " ", "x", "3", ",", " ", "1">>,
    \* AUIPC x3, 1
    <<"A", "U", "I", "P", "C", " ", "x", "3", ",", " ", "1">>,
    \* HLT
    <<"H", "L", "T">>,
    \* ADD x0, x1, x2
    <<"A", "D", "D", " ", "x", "0", ",", " ", "x", "1", ",", " ", "x", "2">>,
    \* ADDI x0, x1, 5
    <<"A", "D", "D", "I", " ", "x", "0", ",", " ", "x", "1", ",", " ", "5">>,
    \* LW x0, x0, 8
    <<"L", "W", " ", "x", "0", ",", " ", "x", "0", ",", " ", "8">>,
    \* LUI x0, 1
    <<"L", "U", "I", " ", "x", "0", ",", " ", "1">>,
    \* JAL x0, 8
    <<"J", "A", "L", " ", "x", "0", ",", " ", "8">>,
    \* BEQ x1, x2, 8
    <<"B", "E", "Q", " ", "x", "1", ",", " ", "x", "2", ",", " ", "8">>,
    \* BNE x1, x2, -4
    <<"B", "N", "E", " ", "x", "1", ",", " ", "x", "2", ",", " ", "-", "4">>,
    \* JAL x1, 8
    <<"J", "A", "L", " ", "x", "1", ",", " ", "8">>,
    \* JALR x3, x2, 4
    <<"J", "A", "L", "R", " ", "x", "3", ",", " ", "x", "2", ",", " ", "4">>
  }

\* parser.parseInstruction of each line, as the first line of a program
\* without labels
Instructions ==
  {parseInstruction(line, 0, 1, NoCells).value : line \in InstructionLines}

\* the most calls made on one machine
MaxCalls == 2

\* register contents a program reaches from a Reset state:
\*   all zero;
\*   ADDI x1, x0, -1; SRLI x1, x1, 1; ADDI x2, x0, 1   (x1 = 2^31 - 1);
\*   LUI x1, -524288; ADDI x2, x0, -1                  (x1 = -2^31)
RegisterFiles ==
  {ZeroRegisters,
   [ZeroRegisters EXCEPT ![1] = MaxInt32, ![2] = 1],
   [ZeroRegisters EXCEPT ![1] = MinInt32, ![2] = -1]}

\* the state objects execute is called on: the object literal of the
\* controller and a Simulator
Machines ==
  {[m EXCEPT !.registers = f] : m \in {NewPlainState, NewSimulator},
                                f \in RegisterFiles}

\* the last n elements of a sequence: slice(-n)
Last(seq, n) ==
  IF Len(seq) <= n THEN seq ELSE SubSeq(seq, Len(seq) - n + 1, Len(seq))

\* the addresses getState lists: below 1024, nonzero or below 256
Listed(this) ==
  {i \in 0..(Min(this.memory.length, 1024) - 1) :
     Cell(this.memory, i) # 0 \/ i < 256}

\* Simulator.getState; memory is the list of {address, value}, one per
\* listed address, as the value at each address
getState(this) ==
  [registers |-> this.registers,
   memory |-> [i \in Listed(this) |-> Cell(this.memory, i)],
   pc |-> this.pc,
   halted |-> this.halted,
   cycleCount |-> this.cycleCount,
   executionHistory |-> Last(this.executionHistory, 10)]

\* the bytes after state.memory.forEach(setUint8): each listed address holds
\* the listed value, every other address what it held
SetAll(memory, list) ==
  [memory EXCEPT !.cells =
     [a \in ((DOMAIN @) \ (DOMAIN list)) \cup {i \in DOMAIN list : list[i] # 0} |->
        IF a \in DOMAIN list THEN list[a] ELSE @[a]]]

\* Simulator.setState with an object getState made
setState(this, state) ==
  [this EXCEPT !.registers = state.registers,
               !.memory = SetAll(@, state.memory),
               !.pc = state.pc,
               !.halted = state.halted,
               !.cycleCount = state.cycleCount,
               !.executionHistory = state.executionHistory]

\* decoder.decode(instruction), then executor.execute(decoded, machine)
Execute(instruction) ==
  /\ calls < MaxCalls
  /\ LET d == decode(instruction)
         r == IF d.threw THEN d ELSE execute(d.value, machine)
     IN  /\ call' = [instruction |-> instruction, before |-> machine,
                     threw |-> r.threw]
         /\ machine' = IF r.threw THEN machine ELSE r.value
  /\ calls' = calls + 1
  /\ UNCHANGED <<controllerVars, restored, parsed>>

\* machine.setRegister(reg, value) on a Simulator
SetRegister(reg, value) ==
  /\ calls < MaxCalls
  /\ machine.kind = "Simulator"
  /\ LET r == SimSetRegister(machine, reg, value)
     IN  /\ call' = [method |-> "setRegister", reg |-> reg, value |-> value,
                     before |-> machine, threw |-> r.threw]
         /\ machine' = IF r.threw THEN machine ELSE r.value
  /\ calls' = calls + 1
  /\ UNCHANGED <<controllerVars, restored, parsed>>

\* machine.writeByte(address, value) on a Simulator
WriteByte(address, value) ==
  /\ calls < MaxCalls
  /\ machine.kind = "Simulator"
  /\ LET r == SimWriteByte(machine, address, value)
     IN  /\ call' = [method |-> "writeByte", address |-> address,
                     value |-> value, before |-> machine, threw |-> r.threw]
         /\ machine' = IF r.threw THEN machine ELSE r.value
  /\ calls' = calls + 1
  /\ UNCHANGED <<controllerVars, restored, parsed>>

\* new Simulator().setState(machine.getState())
RoundTrip ==
  /\ calls < MaxCalls
  /\ machine.kind = "Simulator"
  /\ restored' = [from |-> machine,
                  to |-> setState(NewSimulator, getState(machine))]
  /\ calls' = calls + 1
  /\ UNCHANGED <<controllerVars, machine, call, parsed>>

\* arguments of the direct calls
RegisterArguments == {0, 1, 32}

ValueArguments == {-1, 7}

AddressArguments == {-1, 8, 300, 2000}

ExecInit ==
  /\ simulatorState = NewPlainState
  /\ request = None
  /\ response = None
  /\ app = NewApp
  /\ running = FALSE
  /\ call = None
  /\ machine \in Machines
  /\ calls = 0
  /\ restored = None
  /\ parsed = None

ExecNext ==
  \/ \E instruction \in Instructions : Execute(instruction)
  \/ \E reg \in RegisterArguments, value \in ValueArguments :
       SetRegister(reg, value)
  \/ \E address \in AddressArguments, value \in ValueArguments :
       WriteByte(address, value)
  \/ RoundTrip

SpecExec == ExecInit /\ [][ExecNext]_vars

(***************************************************************************)
(* Properties of Executor.execute and of the Simulator.                    *)
(***************************************************************************)
Jumps == {"JAL", "JALR"}

\* C6, as stated: an instruction that is no branch and no jump, and does
\* not throw, leaves PC one above what it was.
C6_NonBranchAdvancesPc ==
  (Executes(call, AllOpcodes \ (BranchOpcodes \cup Jumps)) /\ ~call.threw) =>
    machine.pc = call.before.pc + 1

\* C6, amended: an instruction that is no branch, no jump and not HLT, and
\* does not throw, leaves PC one above what it was; HLT leaves PC as it was
\* and sets halted.
C6_NonBranchAdvancesPcExceptHlt ==
  /\ (Executes(call, AllOpcodes \ (BranchOpcodes \cup Jumps \cup {"HLT"}))
        /\ ~call.threw) =>
       machine.pc = call.before.pc + 1
  /\ (Executes(call, {"HLT"}) /\ ~call.threw) =>
       (machine.pc = call.before.pc /\ machine.halted)

\* a load or a store has executed without throwing, from a state with PC
\* above 0
C6_Witness ==
  /\ Executes(call, LoadOpcodes \cup StoreOpcodes)
  /\ ~call.threw
  /\ call.before.pc > 0
  /\ machine.pc = call.before.pc + 1

\* the value of register r in a state object
Reg(state, r) == IF r = 0 THEN 0 ELSE state.registers[r]

\* the call executed an instruction whose destination is register 0
WritesRegisterZero(c) ==
  /\ Executes(c, AllOpcodes)
  /\ "rd" \in DOMAIN Decoded(c).value
  /\ Decoded(c).value.rd = 0
  /\ ~c.threw

\* C7: register 0 reads as 0 and holds 0, on the plain state object and on
\* the Simulator; an instruction whose destination is register 0, and a
\* setRegister(0, v), leave the register array as it was.
C7_RegisterZeroInvariant ==
  /\ getRegister(MakeSim(machine), 0).value = 0
  /\ SimGetRegister(machine, 0).value = 0
  /\ machine.registers[0] = 0
  /\ WritesRegisterZero(call) => machine.registers = call.before.registers
  /\ ("method" \in DOMAIN call /\ call.method = "setRegister" /\ call.reg = 0) =>
       (~call.threw /\ machine.registers = call.before.registers)

\* an instruction with destination register 0 has executed with a nonzero
\* operand, and it was not the first call
C7_Witness ==
  /\ WritesRegisterZero(call)
  /\ Reg(call.before, 1) # 0
  /\ calls = MaxCalls

\* a + b reduced modulo 2^32 and read as signed, for a and b of 32 bits
WrapSum(a, b) ==
  IF a >= 0 /\ b > MaxInt32 - a THEN (a + MinInt32) + (b + MinInt32)
  ELSE IF a < 0 /\ b < MinInt32 - a THEN (a - MinInt32) + (b - MinInt32)
  ELSE a + b

\* a - b reduced modulo 2^32 and read as signed, for a and b of 32 bits
WrapDifference(a, b) ==
  IF a >= 0 /\ b < 0 /\ a > MaxInt32 + b THEN (a + MinInt32) - (b - MinInt32)
  ELSE IF a < 0 /\ b > 0 /\ a < MinInt32 + b THEN (a - MinInt32) - (b + MinInt32)
  ELSE a - b

\* the destination register after the call holds value
Gives(c, value) ==
  Decoded(c).value.rd # 0 => machine.registers[Decoded(c).value.rd] = value

\* C8: every register holds a 32-bit signed integer, and ADD, SUB and ADDI
\* leave in the destination register the sum or difference of their operands
\* reduced modulo 2^32 and read as signed.
C8_ArithmeticWraps ==
  /\ \A r \in DOMAIN machine.registers :
       machine.registers[r] >= MinInt32 /\ machine.registers[r] <= MaxInt32
  /\ (Executes(call, {"ADD"}) /\ ~call.threw) =>
       Gives(call, WrapSum(Reg(call.before, Decoded(call).value.rs1),
                           Reg(call.before, Decoded(call).value.rs2)))
  /\ (Executes(call, {"SUB"}) /\ ~call.threw) =>
       Gives(call, WrapDifference(Reg(call.before, Decoded(call).value.rs1),
                                  Reg(call.before, Decoded(call).value.rs2)))
  /\ (Executes(call, {"ADDI"}) /\ ~call.threw) =>
       Gives(call, WrapSum(Reg(call.before, Decoded(call).value.rs1),
                           Decoded(call).value.imm))

\* ADD of 2^31 - 1 and 1 has given -2^31
C8_Witness ==
  /\ Executes(call, {"ADD"})
  /\ Reg(call.before, Decoded(call).value.rs1) = MaxInt32
  /\ Reg(call.before, Decoded(call).value.rs2) = 1
  /\ machine.registers[Decoded(call).value.rd] = MinInt32

\* C9: a fresh Simulator loaded with getState of a Simulator has its
\* registers, PC, halted flag and the same byte at every address.
C9_RoundTrip ==
  restored # None =>
    /\ restored.to.registers = restored.from.registers
    /\ restored.to.pc = restored.from.pc
    /\ restored.to.halted = restored.from.halted
    /\ restored.to.memory.cells = restored.from.memory.cells

(***************************************************************************)
(* Single instructions on machines whose registers hold the boundary       *)
(* values of the comparisons, shifts and jumps; each machine has had all    *)
(* its calls but one.                                                      *)
(***************************************************************************)
\* the lines of the instructions
OperationLines ==
  {
    \* BEQ x1, x2, 8
    <<"B", "E", "Q", " ", "x", "1", ",", " ", "x", "2", ",", " ", "8">>,
    \* BEQ x1, x2, -8
    <<"B", "E", "Q", " ", "x", "1", ",", " ", "x", "2", ",", " ", "-", "8">>,
    \* BEQ x1, x2, -6
    <<"B", "E", "Q", " ", "x", "1", ",", " ", "x", "2", ",", " ", "-", "6">>,
    \* BNE x1, x2, 8
    <<"B", "N", "E", " ", "x", "1", ",", " ", "x", "2", ",", " ", "8">>,
    \* BNE x1, x2, -8
    <<"B", "N", "E", " ", "x", "1", ",", " ", "x", "2", ",", " ", "-", "8">>,
    \* BNE x1, x2, -6
    <<"B", "N", "E", " ", "x", "1", ",", " ", "x", "2", ",", " ", "-", "6">>,
    \* BLT x1, x2, 8
    <<"B", "L", "T", " ", "x", "1", ",", " ", "x", "2", ",", " ", "8">>,
    \* BLT x1, x2, -8
    <<"B", "L", "T", " ", "x", "1", ",", " ", "x", "2", ",", " ", "-", "8">>,
    \* BLT x1, x2, -6
    <<"B", "L", "T", " ", "x", "1", ",", " ", "x", "2", ",", " ", "-", "6">>,
    \* BGE x1, x2, 8
    <<"B", "G", "E", " ", "x", "1", ",", " ", "x", "2", ",", " ", "8">>,
    \* BGE x1, x2, -8
    <<"B", "G", "E", " ", "x", "1", ",", " ", "x", "2", ",", " ", "-", "8">>,
    \* BGE x1, x2, -6
    <<"B", "G", "E", " ", "x", "1", ",", " ", "x", "2", ",", " ", "-", "6">>,
    \* BLTU x1, x2, 8
    <<"B", "L", "T", "U", " ", "x", "1", ",", " ", "x", "2", ",", " ", "8">>,
    \* BLTU x1, x2, -8
    <<"B", "L", "T", "U", " ", "x", "1", ",", " ", "x", "2", ",", " ", "-", "8">>,
    \* BLTU x1, x2, -6
    <<"B", "L", "T", "U", " ", "x", "1", ",", " ", "x", "2", ",", " ", "-", "6">>,
    \* BGEU x1, x2, 8
    <<"B", "G", "E", "U", " ", "x", "1", ",", " ", "x", "2", ",", " ", "8">>,
    \* BGEU x1, x2, -8
    <<"B", "G", "E", "U", " ", "x", "1", ",", " ", "x", "2", ",", " ", "-", "8">>,
    \* BGEU x1, x2, -6
    <<"B", "G", "E", "U", " ", "x", "1", ",", " ", "x", "2", ",", " ", "-", "6">>,
    \* JAL x1, 8
    <<"J", "A", "L", " ", "x", "1", ",", " ", "8">>,
    \* JAL x3, -8
    <<"J", "A", "L", " ", "x", "3", ",", " ", "-", "8">>,
    \* JAL x3, -6
    <<"J", "A", "L", " ", "x", "3", ",", " ", "-", "6">>,
    \* JALR x2, x2, 4
    <<"J", "A", "L", "R", " ", "x", "2", ",", " ", "x", "2", ",", " ", "4">>,
    \* JALR x3, x2, -8
    <<"J", "A", "L", "R", " ", "x", "3", ",", " ", "x", "2", ",", " ", "-", "8">>,
    \* JALR x1, x1, 8
    <<"J", "A", "L", "R", " ", "x", "1", ",", " ", "x", "1", ",", " ", "8">>,
    \* LUI x3, 1
    <<"L", "U", "I", " ", "x", "3", ",", " ", "1">>,
    \* LUI x3, 524287
    <<"L", "U", "I", " ", "x", "3", ",", " ", "5", "2", "4", "2", "8", "7">>,
    \* LUI x3, -524288
    <<"L", "U", "I", " ", "x", "3", ",", " ", "-", "5", "2", "4", "2", "8", "8">>,
    \* LUI x3, -1
    <<"L", "U", "I", " ", "x", "3", ",", " ", "-", "1">>,
    \* AUIPC x3, 1
    <<"A", "U", "I", "P", "C", " ", "x", "3", ",", " ", "1">>,
    \* AUIPC x3, 524287
    <<"A", "U", "I", "P", "C", " ", "x", "3", ",", " ", "5", "2", "4", "2", "8", "7">>,
    \* AUIPC x3, -524288
    <<"A", "U", "I", "P", "C", " ", "x", "3", ",", " ", "-", "5", "2", "4", "2", "8", "8">>,
    \* AUIPC x3, -1
    <<"A", "U", "I", "P", "C", " ", "x", "3", ",", " ", "-", "1">>,
    \* SLL x3, x1, x2
    <<"S", "L", "L", " ", "x", "3", ",", " ", "x", "1", ",", " ", "x", "2">>,
    \* SRL x3, x1, x2
    <<"S", "R", "L", " ", "x", "3", ",", " ", "x", "1", ",", " ", "x", "2">>,
    \* SRA x3, x1, x2
    <<"S", "R", "A", " ", "x", "3", ",", " ", "x", "1", ",", " ", "x", "2">>,
    \* SLLI x3, x1, 0
    <<"S", "L", "L", "I", " ", "x", "3", ",", " ", "x", "1", ",", " ", "0">>,
    \* SLLI x3, x1, 1
    <<"S", "L", "L", "I", " ", "x", "3", ",", " ", "x", "1", ",", " ", "1">>,
    \* SLLI x3, x1, 31
    <<"S", "L", "L", "I", " ", "x", "3", ",", " ", "x", "1", ",", " ", "3", "1">>,
    \* SLLI x3, x1, 32
    <<"S", "L", "L", "I", " ", "x", "3", ",", " ", "x", "1", ",", " ", "3", "2">>,
    \* SLLI x3, x1, -1
    <<"S", "L", "L", "I", " ", "x", "3", ",", " ", "x", "1", ",", " ", "-", "1">>,
    \* SRLI x3, x1, 0
    <<"S", "R", "L", "I", " ", "x", "3", ",", " ", "x", "1", ",", " ", "0">>,
    \* SRLI x3, x1, 1
    <<"S", "R", "L", "I", " ", "x", "3", ",", " ", "x", "1", ",", " ", "1">>,
    \* SRLI x3, x1, 31
    <<"S", "R", "L", "I", " ", "x", "3", ",", " ", "x", "1", ",", " ", "3", "1">>,
    \* SRLI x3, x1, 32
    <<"S", "R", "L", "I", " ", "x", "3", ",", " ", "x", "1", ",", " ", "3", "2">>,
    \* SRLI x3, x1, -1
    <<"S", "R", "L", "I", " ", "x", "3", ",", " ", "x", "1", ",", " ", "-", "1">>,
    \* SRAI x3, x1, 0
    <<"S", "R", "A", "I", " ", "x", "3", ",", " ", "x", "1", ",", " ", "0">>,
    \* SRAI x3, x1, 1
    <<"S", "R", "A", "I", " ", "x", "3", ",", " ", "x", "1", ",", " ", "1">>,
    \* SRAI x3, x1, 31
    <<"S", "R", "A", "I", " ", "x", "3", ",", " ", "x", "1", ",", " ", "3", "1">>,
    \* SRAI x3, x1, 32
    <<"S", "R", "A", "I", " ", "x", "3", ",", " ", "x", "1", ",", " ", "3", "2">>,
    \* SRAI x3, x1, -1
    <<"S", "R", "A", "I", " ", "x", "3", ",", " ", "x", "1", ",", " ", "-", "1">>,
    \* SLT x3, x1, x2
    <<"S", "L", "T", " ", "x", "3", ",", " ", "x", "1", ",", " ", "x", "2">>,
    \* SLTU x3, x1, x2
    <<"S", "L", "T", "U", " ", "x", "3", ",", " ", "x", "1", ",", " ", "x", "2">>,
    \* SLTIU x3, x1, -1
    <<"S", "L", "T", "I", "U", " ", "x", "3", ",", " ", "x", "1", ",", " ", "-", "1">>,
    \* SLTIU x3, x1, 1
    <<"S", "L", "T", "I", "U", " ", "x", "3", ",", " ", "x", "1", ",", " ", "1">>,
    \* SLTI x3, x1, 1
    <<"S", "L", "T", "I", " ", "x", "3", ",", " ", "x", "1", ",", " ", "1">>,
    \* BEQ x1, x2, 7
    <<"B", "E", "Q", " ", "x", "1", ",", " ", "x", "2", ",", " ", "7">>,
    \* BNE x1, x2, -1
    <<"B", "N", "E", " ", "x", "1", ",", " ", "x", "2", ",", " ", "-", "1">>,
    \* BLT x1, x2, 4095
    <<"B", "L", "T", " ", "x", "1", ",", " ", "x", "2", ",", " ", "4", "0", "9", "5">>,
    \* BGEU x1, x2, -4095
    <<"B", "G", "E", "U", " ", "x", "1", ",", " ", "x", "2", ",", " ", "-", "4", "0", "9", "5">>,
    \* BEQ x1, x2, 4094
    <<"B", "E", "Q", " ", "x", "1", ",", " ", "x", "2", ",", " ", "4", "0", "9", "4">>,
    \* BGE x1, x2, -4096
    <<"B", "G", "E", " ", "x", "1", ",", " ", "x", "2", ",", " ", "-", "4", "0", "9", "6">>,
    \* BLTU x1, x2, 0
    <<"B", "L", "T", "U", " ", "x", "1", ",", " ", "x", "2", ",", " ", "0">>,
    \* JAL x1, 1
    <<"J", "A", "L", " ", "x", "1", ",", " ", "1">>,
    \* JAL x3, -5
    <<"J", "A", "L", " ", "x", "3", ",", " ", "-", "5">>,
    \* JAL x1, 1048575
    <<"J", "A", "L", " ", "x", "1", ",", " ", "1", "0", "4", "8", "5", "7", "5">>,
    \* JAL x3, -1048575
    <<"J", "A", "L", " ", "x", "3", ",", " ", "-", "1", "0", "4", "8", "5", "7", "5">>,
    \* JAL x1, 1048574
    <<"J", "A", "L", " ", "x", "1", ",", " ", "1", "0", "4", "8", "5", "7", "4">>,
    \* JAL x3, -1048576
    <<"J", "A", "L", " ", "x", "3", ",", " ", "-", "1", "0", "4", "8", "5", "7", "6">>,
    \* ADD x3, x1, x2
    <<"A", "D", "D", " ", "x", "3", ",", " ", "x", "1", ",", " ", "x", "2">>,
    \* SUB x3, x1, x2
    <<"S", "U", "B", " ", "x", "3", ",", " ", "x", "1", ",", " ", "x", "2">>,
    \* XOR x3, x1, x2
    <<"X", "O", "R", " ", "x", "3", ",", " ", "x", "1", ",", " ", "x", "2">>,
    \* OR x3, x1, x2
    <<"O", "R", " ", "x", "3", ",", " ", "x", "1", ",", " ", "x", "2">>,
    \* AND x3, x1, x2
    <<"A", "N", "D", " ", "x", "3", ",", " ", "x", "1", ",", " ", "x", "2">>,
    \* ADDI x3, x1, 1
    <<"A", "D", "D", "I", " ", "x", "3", ",", " ", "x", "1", ",", " ", "1">>,
    \* XORI x3, x1, 1
    <<"X", "O", "R", "I", " ", "x", "3", ",", " ", "x", "1", ",", " ", "1">>,
    \* ORI x3, x1, 1
    <<"O", "R", "I", " ", "x", "3", ",", " ", "x", "1", ",", " ", "1">>,
    \* ANDI x3, x1, 1
    <<"A", "N", "D", "I", " ", "x", "3", ",", " ", "x", "1", ",", " ", "1">>,
    \* LB x3, x0, 8
    <<"L", "B", " ", "x", "3", ",", " ", "x", "0", ",", " ", "8">>,
    \* LH x3, x0, 8
    <<"L", "H", " ", "x", "3", ",", " ", "x", "0", ",", " ", "8">>,
    \* LW x3, x0, 8
    <<"L", "W", " ", "x", "3", ",", " ", "x", "0", ",", " ", "8">>,
    \* LBU x3, x0, 8
    <<"L", "B", "U", " ", "x", "3", ",", " ", "x", "0", ",", " ", "8">>,
    \* LHU x3, x0, 8
    <<"L", "H", "U", " ", "x", "3", ",", " ", "x", "0", ",", " ", "8">>,
    \* SB x1, x0, 8
    <<"S", "B", " ", "x", "1", ",", " ", "x", "0", ",", " ", "8">>,
    \* SH x1, x0, 8
    <<"S", "H", " ", "x", "1", ",", " ", "x", "0", ",", " ", "8">>,
    \* SW x1, x0, 8
    <<"S", "W", " ", "x", "1", ",", " ", "x", "0", ",", " ", "8">>,
    \* hlt
    <<"h", "l", "t">>,
    \* LW x3, x0, -4
    <<"L", "W", " ", "x", "3", ",", " ", "x", "0", ",", " ", "-", "4">>,
    \* SW x1, x0, -4
    <<"S", "W", " ", "x", "1", ",", " ", "x", "0", ",", " ", "-", "4">>
  }

\* parser.parseInstruction of each line, as the first line of a program
\* without labels
Operations ==
  {parseInstruction(line, 0, 1, NoCells).value : line \in OperationLines}

\* register contents a program reaches from a Reset state:
\*   all zero;
\*   ADDI x1, x0, -1; ADDI x2, x0, 1;
\*   ADDI x1, x0, 1; ADDI x2, x0, -1;
\*   LUI x1, -524288; ADDI x2, x0, 33      (x1 = -2^31);
\*   ADDI x1, x0, -1; SRLI x1, x1, 1; ADD x2, x1, x0   (x1 = x2 = 2^31 - 1);
\*   ADDI x1, x0, -8; ADDI x2, x0, 1004
OperationRegisterFiles ==
  {ZeroRegisters,
   [ZeroRegisters EXCEPT ![1] = -1, ![2] = 1],
   [ZeroRegisters EXCEPT ![1] = 1, ![2] = -1],
   [ZeroRegisters EXCEPT ![1] = MinInt32, ![2] = 33],
   [ZeroRegisters EXCEPT ![1] = MaxInt32, ![2] = MaxInt32],
   [ZeroRegisters EXCEPT ![1] = -8, ![2] = 1004]}

\* the PC of the instruction
OperationPcs == {0, 5, 1024}

\* memory bytes that stores left at the addresses 6 to 13
OperationBytes == [addr \in 6..13 |-> 250 - addr]

\* the state objects execute is called on
OperationMachines ==
  {[m EXCEPT !.registers = f, !.pc = p, !.memory.cells = OperationBytes] :
     m \in {NewPlainState, NewSimulator}, f \in OperationRegisterFiles,
     p \in OperationPcs}

OperationInit ==
  /\ simulatorState = NewPlainState
  /\ request = None
  /\ response = None
  /\ app = NewApp
  /\ running = FALSE
  /\ call = None
  /\ machine \in OperationMachines
  /\ calls = MaxCalls - 1
  /\ restored = None
  /\ parsed = None

OperationNext == \E instruction \in Operations : Execute(instruction)

SpecOperation == OperationInit /\ [][OperationNext]_vars

(***************************************************************************)
(* Properties of single instructions.                                      *)
(***************************************************************************)
\* a below b when both are read as unsigned 32-bit words
BelowUnsigned(a, b) ==
  \/ a >= 0 /\ b < 0
  \/ (a >= 0) = (b >= 0) /\ a < b

\* the predicate of a branch opcode on the values of rs1 and rs2
Predicate(opcode, a, b) ==
  CASE opcode = "BEQ" -> a = b
    [] opcode = "BNE" -> a # b
    [] opcode = "BLT" -> a < b
    [] opcode = "BGE" -> a >= b
    [] opcode = "BLTU" -> BelowUnsigned(a, b)
    [] opcode = "BGEU" -> ~BelowUnsigned(a, b)

\* the predicate of the branch of a call holds in the state before it
Taken(c) ==
  Predicate(Decoded(c).value.opcode,
            Reg(c.before, Decoded(c).value.rs1),
            Reg(c.before, Decoded(c).value.rs2))

\* C23: a branch whose predicate holds sets PC to the old PC plus imm
\* divided by 4 as an integer (rounded down), for positive and negative imm;
\* otherwise PC is the old PC + 1; registers and memory are unchanged.
C23_BranchTarget ==
  (Executes(call, BranchOpcodes) /\ ~call.threw) =>
    /\ machine.pc = IF Taken(call)
                      THEN call.before.pc + (Decoded(call).value.imm \div 4)
                      ELSE call.before.pc + 1
    /\ machine.registers = call.before.registers
    /\ machine.memory = call.before.memory

\* BLT with -1 < 1 taken backwards from PC 5 by an offset of -8 bytes
C23_Witness ==
  /\ Executes(call, {"BLT"})
  /\ Decoded(call).value.imm = -8
  /\ Reg(call.before, 1) = -1 /\ Reg(call.before, 2) = 1
  /\ call.before.pc = 5
  /\ machine.pc = 3

\* the target of JALR for the value v of rs1: an instruction index below
\* 1000, a byte address from 1000 on
JalrTarget(v, imm) ==
  IF v < 1000 THEN v + (imm \div 4)
  ELSE (WrapSum(v, imm) - (WrapSum(v, imm) % 2)) \div 4

\* C24: JAL at PC = p writes p + 1 into rd and sets PC to p + imm/4; JALR
\* at PC = p writes p + 1 into rd and derives the new PC from the value rs1
\* held before the instruction, also when rd and rs1 are the same register.
C24_JumpAndLink ==
  /\ (Executes(call, {"JAL"}) /\ ~call.threw) =>
       /\ Gives(call, call.before.pc + 1)
       /\ machine.pc = call.before.pc + (Decoded(call).value.imm \div 4)
  /\ (Executes(call, {"JALR"}) /\ ~call.threw) =>
       /\ Gives(call, call.before.pc + 1)
       /\ machine.pc = JalrTarget(Reg(call.before, Decoded(call).value.rs1),
                                  Decoded(call).value.imm)

\* JALR x1, x1, 8 at PC 5 with x1 = 1: x1 holds 6 and PC is 1 + 2
C24_Witness ==
  /\ Executes(call, {"JALR"})
  /\ Decoded(call).value.rd = 1 /\ Decoded(call).value.rs1 = 1
  /\ Reg(call.before, 1) = 1
  /\ call.before.pc = 5
  /\ machine.registers[1] = 6
  /\ machine.pc = 3

\* the low 20 bits of imm shifted left by 12 and read as a signed word
UpperImmediate(imm) ==
  IF imm % 1048576 >= 524288 THEN ((imm % 1048576) - 1048576) * 4096
  ELSE (imm % 1048576) * 4096

\* C28: for LUI and AUIPC the decoded immediate is the low 20 bits of the
\* parsed imm shifted left by 12, as a signed 32-bit value; LUI writes that
\* value to rd, and AUIPC at PC = p writes 4 * p plus that value, wrapped to
\* 32 bits, to rd.
C28_UpperImmediate ==
  /\ Executes(call, {"LUI", "AUIPC"}) =>
       Decoded(call).value.imm = UpperImmediate(call.instruction.imm)
  /\ (Executes(call, {"LUI"}) /\ ~call.threw) =>
       Gives(call, UpperImmediate(call.instruction.imm))
  /\ (Executes(call, {"AUIPC"}) /\ ~call.threw) =>
       Gives(call, WrapSum(4 * call.before.pc,
                           UpperImmediate(call.instruction.imm)))

\* AUIPC x3, 524287 at PC 1024: 4096 + 0x7FFFF000 wraps to the least word
C28_Witness ==
  /\ Executes(call, {"AUIPC"}) /\ ~call.threw
  /\ call.instruction.imm = 524287
  /\ call.before.pc = 1024
  /\ machine.registers[3] = MinInt32

\* a shifted left by s places: doubled s times, each time within 32 bits
RECURSIVE Doubled(_, _)
Doubled(a, s) == IF s = 0 THEN a ELSE Doubled(WrapSum(a, a), s - 1)

\* a shifted right by s places with the sign kept: halved s times, rounding
\* down
RECURSIVE Halved(_, _)
Halved(a, s) == IF s = 0 THEN a ELSE Halved(a \div 2, s - 1)

\* a shifted right by s places as an unsigned word: the first halving is of
\* a + 2^32 when a is negative
HalvedUnsigned(a, s) ==
  IF s = 0 THEN a
  ELSE IF a >= 0 THEN Halved(a, s)
  ELSE Halved((a \div 2) - MinInt32, s - 1)

\* the result of the shift of an opcode
Shifted(opcode, a, s) ==
  CASE opcode \in {"SLL", "SLLI"} -> Doubled(a, s)
    [] opcode \in {"SRL", "SRLI"} -> HalvedUnsigned(a, s)
    [] opcode \in {"SRA", "SRAI"} -> Halved(a, s)

ShiftImmediateOpcodes == {"SLLI", "SRLI", "SRAI"}

\* C29: SLL, SRL and SRA shift by the low 5 bits of rs2; SLLI, SRLI and SRAI
\* shift by the amount of the instruction, which is in 0..31, and an amount
\* of 0 leaves the value as it is; SRA and SRAI fill with the sign bit, SRL
\* and SRLI with zeros; a shift-immediate with an amount outside 0..31 fails
\* decoding, and nothing is executed.
C29_Shifts ==
  /\ (Executes(call, {"SLL", "SRL", "SRA"}) /\ ~call.threw) =>
       Gives(call, Shifted(Decoded(call).value.opcode,
                           Reg(call.before, Decoded(call).value.rs1),
                           Reg(call.before, Decoded(call).value.rs2) % 32))
  /\ (Executes(call, ShiftImmediateOpcodes) /\ ~call.threw) =>
       /\ call.instruction.imm \in 0..31
       /\ Gives(call, Shifted(Decoded(call).value.opcode,
                              Reg(call.before, Decoded(call).value.rs1),
                              call.instruction.imm))
       /\ call.instruction.imm = 0 =>
            Gives(call, Reg(call.before, Decoded(call).value.rs1))
  /\ (/\ "instruction" \in DOMAIN call
      /\ call.instruction.opcode \in ShiftImmediateOpcodes
      /\ call.instruction.imm \notin 0..31) =>
       /\ Decoded(call).threw
       /\ call.threw
       /\ machine = call.before

\* SRA of the least word by x2 = 33: shifted by 1, the sign kept
C29_Witness ==
  /\ Executes(call, {"SRA"}) /\ ~call.threw
  /\ Reg(call.before, 1) = MinInt32 /\ Reg(call.before, 2) = 33
  /\ machine.registers[3] = -1073741824


\* 1 when the condition holds and 0 otherwise
Flag(condition) == IF condition THEN 1 ELSE 0

\* rs1 holds -1 and rs2 holds 1 before the call, which names both
MinusOneAndOne(c) ==
  /\ Reg(c.before, Decoded(c).value.rs1) = -1
  /\ Reg(c.before, Decoded(c).value.rs2) = 1

\* the PC after the call is the target of its branch
BranchTaken(c) ==
  /\ machine.pc = c.before.pc + (Decoded(c).value.imm \div 4)
  /\ machine.pc # c.before.pc + 1

\* C30: SLTU, SLTIU, BLTU and BGEU compare unsigned 32-bit values, SLTIU its
\* sign-extended immediate read as unsigned.  With rs1 = -1 and rs2 = 1 SLTU
\* writes 0, BLTU is not taken and BGEU is taken, while SLT writes 1 and BLT
\* is taken.
C30_UnsignedComparisons ==
  /\ (Executes(call, {"SLTU"}) /\ ~call.threw) =>
       Gives(call, Flag(BelowUnsigned(Reg(call.before, Decoded(call).value.rs1),
                                      Reg(call.before, Decoded(call).value.rs2))))
  /\ (Executes(call, {"SLTIU"}) /\ ~call.threw) =>
       Gives(call, Flag(BelowUnsigned(Reg(call.before, Decoded(call).value.rs1),
                                      Decoded(call).value.imm)))
  /\ (Executes(call, {"BLTU", "BGEU"}) /\ ~call.threw) =>
       BranchTaken(call) = Taken(call)
  /\ (Executes(call, {"SLTU"}) /\ ~call.threw /\ MinusOneAndOne(call)) =>
       Gives(call, 0)
  /\ (Executes(call, {"SLT"}) /\ ~call.threw /\ MinusOneAndOne(call)) =>
       Gives(call, 1)
  /\ (Executes(call, {"BLTU"}) /\ ~call.threw /\ MinusOneAndOne(call)) =>
       machine.pc = call.before.pc + 1
  /\ (Executes(call, {"BGEU", "BLT"}) /\ ~call.threw /\ MinusOneAndOne(call)) =>
       BranchTaken(call)

\* BGEU x1, x2, 8 at PC 5 with x1 = -1 and x2 = 1: taken, to PC 7
C30_Witness ==
  /\ Executes(call, {"BGEU"}) /\ ~call.threw
  /\ MinusOneAndOne(call)
  /\ call.before.pc = 5 /\ Decoded(call).value.imm = 8
  /\ machine.pc = 7

(***************************************************************************)
(* Stores and loads at one aligned address, through Executor.execute and   *)
(* through the handlers of the Executor called with a Simulator as sim.    *)
(***************************************************************************)
\* the lines of the stores and loads
MemoryLines ==
  {
    \* SB x1, x0, 8
    <<"S", "B", " ", "x", "1", ",", " ", "x", "0", ",", " ", "8">>,
    \* SH x1, x0, 8
    <<"S", "H", " ", "x", "1", ",", " ", "x", "0", ",", " ", "8">>,
    \* SW x1, x0, 8
    <<"S", "W", " ", "x", "1", ",", " ", "x", "0", ",", " ", "8">>,
    \* LB x3, x0, 8
    <<"L", "B", " ", "x", "3", ",", " ", "x", "0", ",", " ", "8">>,
    \* LH x3, x0, 8
    <<"L", "H", " ", "x", "3", ",", " ", "x", "0", ",", " ", "8">>,
    \* LW x3, x0, 8
    <<"L", "W", " ", "x", "3", ",", " ", "x", "0", ",", " ", "8">>,
    \* LBU x3, x0, 8
    <<"L", "B", "U", " ", "x", "3", ",", " ", "x", "0", ",", " ", "8">>,
    \* LHU x3, x0, 8
    <<"L", "H", "U", " ", "x", "3", ",", " ", "x", "0", ",", " ", "8">>
  }

MemoryInstructions ==
  {parseInstruction(line, 0, 1, NoCells).value : line \in MemoryLines}

\* the values of x1 that are stored: 0x7FFFFFFF, 0x80000000, 0x00001280 and
\* 0xFFFFFFFE
StoredValues == {MaxInt32, MinInt32, 4736, -2}

MemoryMachines ==
  {[m EXCEPT !.registers = [ZeroRegisters EXCEPT ![1] = v]] :
     m \in {NewPlainState, NewSimulator}, v \in StoredValues}

\* the switch of Executor.execute, unless decode threw
DispatchDecoded(decoded, sim) ==
  IF decoded.threw THEN decoded ELSE Dispatch(decoded.value, sim)

\* what a handler called with the Simulator itself as sim did
Handled(instruction, this, r) ==
  /\ call' = [instruction |-> instruction, before |-> this, threw |-> r.threw,
              direct |-> TRUE]
  /\ machine' = IF r.threw THEN this ELSE r.value.state

\* new Executor().executeXX(decoder.decode(instruction), machine): the
\* handler of the instruction with the Simulator as its sim
HandleOnSimulator(instruction) ==
  /\ calls < MaxCalls
  /\ machine.kind = "Simulator"
  /\ Handled(instruction, machine,
             DispatchDecoded(decode(instruction),
                             [adapter |-> FALSE, state |-> machine,
                              pc |-> machine.pc]))
  /\ calls' = calls + 1
  /\ UNCHANGED <<controllerVars, restored, parsed>>

MemoryInit ==
  /\ simulatorState = NewPlainState
  /\ request = None
  /\ response = None
  /\ app = NewApp
  /\ running = FALSE
  /\ call = None
  /\ machine \in MemoryMachines
  /\ calls = 0
  /\ restored = None
  /\ parsed = None

MemoryNext ==
  \/ \E instruction \in MemoryInstructions : Execute(instruction)
  \/ \E instruction \in MemoryInstructions : HandleOnSimulator(instruction)

SpecMemory == MemoryInit /\ [][MemoryNext]_vars

\* the byte at an address as the backend of a call holds it: the Simulator's
\* buffer for a handler called with the Simulator, else what the adapter
\* of Executor.execute reads
BackendByte(c, memory, addr) ==
  IF "direct" \in DOMAIN c THEN Cell(memory, addr) ELSE Index(memory, addr)

\* the value of the k bytes from addr on, least significant byte first
RECURSIVE LittleEndian(_, _, _, _)
LittleEndian(c, memory, addr, k) ==
  IF k = 0 THEN 0
  ELSE BackendByte(c, memory, addr) + 256 * LittleEndian(c, memory, addr + 1, k - 1)

\* an unsigned value of k bytes read as a signed one
SignExtended(value, k) ==
  IF value >= 2 ^ (8 * k - 1) THEN value - 2 ^ (8 * k) ELSE value

\* the value a load returns for the bytes its backend holds
Loaded(c) ==
  CASE Decoded(c).value.opcode = "LB" ->
         SignExtended(LittleEndian(c, c.before.memory, Address(c), 1), 1)
    [] Decoded(c).value.opcode = "LH" ->
         SignExtended(LittleEndian(c, c.before.memory, Address(c), 2), 2)
    [] Decoded(c).value.opcode = "LBU" ->
         LittleEndian(c, c.before.memory, Address(c), 1)
    [] Decoded(c).value.opcode = "LHU" ->
         LittleEndian(c, c.before.memory, Address(c), 2)
    [] Decoded(c).value.opcode = "LW" ->
         FromHalves(LittleEndian(c, c.before.memory, Address(c) + 2, 2),
                    LittleEndian(c, c.before.memory, Address(c), 2))

\* C25: on the plain state and on the Simulator, LB and LH give the stored
\* byte or halfword sign-extended, LBU and LHU give it zero-extended, LW the
\* word; a store leaves the low 8, 16 or 32 bits of the register in memory,
\* the least significant byte at the lowest address, so that a load after a
\* store of the same width at the same address gives those bits back.
C25_LoadsAndStores ==
  /\ (Executes(call, LoadOpcodes) /\ ~call.threw) => Gives(call, Loaded(call))
  /\ (Executes(call, StoreOpcodes) /\ ~call.threw) =>
       \A k \in 0..(Width(call) - 1) :
         BackendByte(call, machine.memory, Address(call) + k) =
           ByteOf(Reg(call.before, Decoded(call).value.rs2), k)

\* the same for the calls made through Executor.execute alone
C25_ThroughExecute ==
  "direct" \notin DOMAIN call => C25_LoadsAndStores

(***************************************************************************)
(* parseInstruction on the two written forms of loads and stores.          *)
(***************************************************************************)
\* the mnemonics of the loads and stores, as texts
Mnemonics ==
  [LB |-> <<"L", "B">>, LH |-> <<"L", "H">>, LW |-> <<"L", "W">>,
   LBU |-> <<"L", "B", "U">>, LHU |-> <<"L", "H", "U">>,
   SB |-> <<"S", "B">>, SH |-> <<"S", "H">>, SW |-> <<"S", "W">>]

\* register operands, as texts
FirstOperands == {<<"x", "1">>, <<"x", "3", "1">>, <<"a", "0">>, <<"S", "P">>}

BaseOperands == {<<"x", "0">>, <<"x", "2">>, <<"t", "0">>}

\* immediates of 12 bits
Offsets == {-2048, -4, 0, 8, 2047}

\* a natural number in decimal
RECURSIVE Decimal(_)
Decimal(n) ==
  IF n < 10 THEN <<DigitChars[n + 1]>>
            ELSE Append(Decimal(n \div 10), DigitChars[(n % 10) + 1])

\* an integer in decimal
Signed(k) == IF k < 0 THEN <<"-">> \o Decimal(-k) ELSE Decimal(k)

\* op a, k(b)
ConventionalForm(op, a, b, k) ==
  Mnemonics[op] \o <<" ">> \o a \o <<",", " ">> \o Signed(k) \o <<"(">> \o b \o <<")">>

\* op a, b, k
ThreeOperandForm(op, a, b, k) ==
  Mnemonics[op] \o <<" ">> \o a \o <<",", " ">> \o b \o <<",", " ">> \o Signed(k)

\* parseInstruction of both forms of one load or store, as the first line
\* of a program
ParseBoth(op, a, b, k) ==
  /\ parsed = None
  /\ parsed' = [opcode |-> op, a |-> a, b |-> b, k |-> k,
                conventional |->
                  parseInstruction(ConventionalForm(op, a, b, k), 0, 1, NoCells),
                operands |->
                  parseInstruction(ThreeOperandForm(op, a, b, k), 0, 1, NoCells)]
  /\ UNCHANGED <<controllerVars, call, machineVars>>

ParseNext ==
  \E op \in DOMAIN Mnemonics, a \in FirstOperands, b \in BaseOperands,
     k \in Offsets : ParseBoth(op, a, b, k)

SpecParse == Init /\ [][ParseNext]_vars

\* the fields of an instruction record but the text of its line
Fields(instruction) == [instruction EXCEPT !.original = <<>>]

\* the 3-operand form parses to the registers and the immediate written
ThreeOperandFormParses ==
  parsed # None =>
    /\ ~parsed.operands.threw
    /\ parsed.operands.value.rs1 = parseRegister(parsed.b).value
    /\ parsed.operands.value.imm = parsed.k
    /\ parsed.operands.value.opcode = parsed.opcode
    /\ IF parsed.opcode \in LoadOpcodes
         THEN parsed.operands.value.rd = parseRegister(parsed.a).value
         ELSE parsed.operands.value.rs2 = parseRegister(parsed.a).value

\* C10: for a load or store, registers a and b and an immediate k of 12
\* bits, `op a, k(b)` parses, to a record with the register fields and the
\* imm of the record `op a, b, k` parses to.
C10_ConventionalFormParses ==
  parsed # None =>
    /\ ~parsed.conventional.threw
    /\ ~parsed.operands.threw
    /\ Fields(parsed.conventional.value) = Fields(parsed.operands.value)

(***************************************************************************)
(* Branches and jumps to labels: parseInstruction with the label table of  *)
(* the first pass, then decode and execute at the instruction's index.     *)
(***************************************************************************)
\* the branches with operands that make their condition hold when x1 = 1,
\* and JAL
JumpLines ==
  [BEQ |-> <<"B", "E", "Q", " ", "x", "0", ",", " ", "x", "0", ",", " ">>,
   BNE |-> <<"B", "N", "E", " ", "x", "1", ",", " ", "x", "0", ",", " ">>,
   BLT |-> <<"B", "L", "T", " ", "x", "0", ",", " ", "x", "1", ",", " ">>,
   BGE |-> <<"B", "G", "E", " ", "x", "1", ",", " ", "x", "0", ",", " ">>,
   BLTU |-> <<"B", "L", "T", "U", " ", "x", "0", ",", " ", "x", "1", ",", " ">>,
   BGEU |-> <<"B", "G", "E", "U", " ", "x", "1", ",", " ", "x", "0", ",", " ">>,
   JAL |-> <<"J", "A", "L", " ", "x", "5", ",", " ">>]

\* the indices of the instruction, and the distances in instructions from it
\* to the instruction its label is bound to
Indices == {0, 3, 1025}

Distances == {-1025, -1024, -2, -1, 1, 2, 1023, 1024}

\* the instruction written with the label `target`
LabelledLine(op) == JumpLines[op] \o <<"t", "a", "r", "g", "e", "t">>

\* the instruction written with the literal offset k
LiteralLine(op, k) == JumpLines[op] \o Signed(k)

\* this.labels after a first pass that bound `target` to index
TargetAt(index) == [name \in {"target"} |-> index]

\* a machine about to execute the instruction at index, with x1 = 1
StateAt(index) ==
  [NewPlainState EXCEPT !.pc = index, !.registers = [@ EXCEPT ![1] = 1]]

\* decode and execute of a record parseInstruction returned
ExecuteParsed(p, state) ==
  IF p.threw THEN p ELSE ExecuteDecoded(decode(p.value), state)

\* what parsing the instruction at index i both ways gave, and the state
\* after executing the labelled one
Jumped(op, i, n, labelled, literal) ==
  [opcode |-> op, index |-> i, distance |-> n,
   labelled |-> labelled, literal |-> literal,
   executed |-> ExecuteParsed(labelled, StateAt(i))]

\* the instruction at index i naming a label n instructions away: parsed
\* with the label and with the literal offset n * 4, then executed
JumpToLabel(op, i, n) ==
  /\ parsed = None
  /\ i + n >= 0
  /\ parsed' = Jumped(op, i, n,
                 parseInstruction(LabelledLine(op), i, i + 1, TargetAt(i + n)),
                 parseInstruction(LiteralLine(op, n * 4), i, i + 1, TargetAt(i + n)))
  /\ UNCHANGED <<controllerVars, call, machineVars>>

LabelNext ==
  \E op \in DOMAIN JumpLines, i \in Indices, n \in Distances :
    JumpToLabel(op, i, n)

SpecLabel == Init /\ [][LabelNext]_vars

\* a jump to a label has been parsed and executed
JumpDone == "distance" \in DOMAIN parsed

\* C11: a taken branch or a JAL that names a label leaves PC at the index
\* the label is bound to, whatever the distance between the two.
C11_LabelReached ==
  JumpDone =>
    /\ ~parsed.labelled.threw
    /\ ~parsed.executed.threw
    /\ parsed.executed.value.pc = parsed.index + parsed.distance

\* the same for the distances a 13-bit byte offset can hold
C11_NearLabelReached ==
  (JumpDone /\ parsed.distance >= -1024 /\ parsed.distance <= 1023) =>
    /\ ~parsed.labelled.threw
    /\ ~parsed.executed.threw
    /\ parsed.executed.value.pc = parsed.index + parsed.distance

\* C12: the record parsed from a branch or JAL that names a label n
\* instructions away has imm = n * 4, the imm of the record parsed from the
\* literal offset n * 4, whenever that literal is accepted.
C12_LabelImmediate ==
  (JumpDone /\ ~parsed.literal.threw) =>
    /\ ~parsed.labelled.threw
    /\ parsed.labelled.value.imm = parsed.distance * 4
    /\ parsed.labelled.value.imm = parsed.literal.value.imm

\* a branch parsed both ways at the largest forward distance its literal
\* allows, and a JAL parsed both ways backwards
C12_Witness ==
  /\ JumpDone
  /\ ~parsed.literal.threw /\ ~parsed.labelled.threw
  /\ \/ parsed.opcode = "BNE" /\ parsed.distance = 1023
        /\ parsed.labelled.value.imm = 4092
     \/ parsed.opcode = "JAL" /\ parsed.distance = -1025
        /\ parsed.literal.value.imm = -4100


(***************************************************************************)
(* Literal immediates: parse of a one-line program whose last operand is   *)
(* a literal, written in decimal, hexadecimal or binary.                   *)
(***************************************************************************)
\* one instruction of every format with an immediate, up to the literal
ImmediateLines ==
  [ADDI |-> <<"A", "D", "D", "I", " ", "x", "1", ",", " ", "x", "2", ",", " ">>,
   SLLI |-> <<"S", "L", "L", "I", " ", "x", "1", ",", " ", "x", "2", ",", " ">>,
   LW |-> <<"L", "W", " ", "x", "1", ",", " ", "x", "2", ",", " ">>,
   SW |-> <<"S", "W", " ", "x", "1", ",", " ", "x", "2", ",", " ">>,
   BEQ |-> <<"B", "E", "Q", " ", "x", "1", ",", " ", "x", "2", ",", " ">>,
   JAL |-> <<"J", "A", "L", " ", "x", "1", ",", " ">>,
   JALR |-> <<"J", "A", "L", "R", " ", "x", "1", ",", " ", "x", "2", ",", " ">>,
   LUI |-> <<"L", "U", "I", " ", "x", "1", ",", " ">>,
   AUIPC |-> <<"A", "U", "I", "P", "C", " ", "x", "1", ",", " ">>]

\* the bit width of the immediate of each format
ImmediateBits ==
  [I |-> 12, IL |-> 12, S |-> 12, JALR |-> 12, SB |-> 13, U |-> 20, UJ |-> 21]

\* 2^n
RECURSIVE Pow2(_)
Pow2(n) == IF n = 0 THEN 1 ELSE 2 * Pow2(n - 1)

\* the values at and next to the ends of the range of a width
Ends(bits) ==
  {-Pow2(bits - 1) - 1, -Pow2(bits - 1), Pow2(bits - 1) - 1, Pow2(bits - 1)}

\* the values written
LiteralValues == {-1, 0, 1} \cup UNION {Ends(bits) : bits \in {12, 13, 20, 21}}

Notations == {"decimal", "hex", "binary"}

RECURSIVE InRadix(_, _)
\* the digits of n >= 0 in the radix
InRadix(n, radix) ==
  IF n < radix THEN <<(DigitChars \o HexLetters)[n + 1]>>
  ELSE Append(InRadix(n \div radix, radix),
              (DigitChars \o HexLetters)[(n % radix) + 1])

\* the literal of a value in a notation (hex and binary for values >= 0)
Literal(v, notation) ==
  CASE notation = "decimal" -> Signed(v)
    [] notation = "hex" -> <<"0", "x">> \o InRadix(v, 16)
    [] notation = "binary" -> <<"0", "b">> \o InRadix(v, 2)

\* parser.parse of the one-line program `op ..., literal`
ParseLiteral(op, v, notation) ==
  /\ parsed = None
  /\ notation # "decimal" => v >= 0
  /\ parsed' = [opcode |-> op, literal |-> v, notation |-> notation,
                result |-> parse(ImmediateLines[op] \o Literal(v, notation))]
  /\ UNCHANGED <<controllerVars, call, machineVars>>

ImmediateNext ==
  \E op \in DOMAIN ImmediateLines, v \in LiteralValues, notation \in Notations :
    ParseLiteral(op, v, notation)

SpecImmediate == Init /\ [][ImmediateNext]_vars

\* a literal has been parsed
LiteralDone == "literal" \in DOMAIN parsed

\* the value lies in the signed range of the width
Fits(v, bits) == v >= -Pow2(bits - 1) /\ v <= Pow2(bits - 1) - 1

\* C13: parse accepts a literal immediate exactly when its value lies in
\* [-2^(b-1), 2^(b-1) - 1] for the bit width b of the instruction's format,
\* and rejects the others with a range error on the line.
C13_ImmediateRange ==
  LiteralDone =>
    IF Fits(parsed.literal, ImmediateBits[instructionFormats(parsed.opcode)])
      THEN /\ ~parsed.result.threw
           /\ parsed.result.value[1].imm = parsed.literal
      ELSE /\ parsed.result.threw
           /\ parsed.result.error = "Immediate value does not fit"
           /\ parsed.result.line = 1

\* an I-format instruction with 2048 is rejected
C13_Witness ==
  /\ LiteralDone
  /\ parsed.opcode = "ADDI" /\ parsed.literal = 2048
  /\ parsed.result.threw

\* an I-format instruction with -2048 is accepted
C13_AcceptedWitness ==
  /\ LiteralDone
  /\ parsed.opcode = "ADDI" /\ parsed.literal = -2048
  /\ ~parsed.result.threw /\ parsed.result.value[1].imm = -2048


\* the imm of a record parse returned lies in the signed range of the width
\* of its format, and decode leaves it as it is
InRangeOfFormat(p) ==
  ~p.threw =>
    /\ Fits(p.value.imm, ImmediateBits[p.value.format])
    /\ ~decode(p.value).threw => decode(p.value).value.imm = p.value.imm

\* C26: every record parse returns carries an imm inside the signed range
\* of the bit width of its format (13 bits for branches, 21 for JAL),
\* whether the operand was a literal or a label, so that the sign extension
\* of decode leaves the imm of every parsed branch and jump unchanged.
C26_ParsedImmediateInRange ==
  JumpDone => (InRangeOfFormat(parsed.labelled) /\ InRangeOfFormat(parsed.literal))

(***************************************************************************)
(* parse on sources that mix blank, comment, label and instruction lines.  *)
(***************************************************************************)
\* the kinds of a line
LineKinds ==
  {"blank", "comment", "label", "labelled", "plain", "twoLabels", "trailingColon"}

\* the instruction of the lines that hold one:  ADDI x1, x0, 1
PlainLine == <<"A", "D", "D", "I", " ", "x", "1", ",", " ", "x", "0", ",", " ", "1">>

\* the label of line i, and a second one
FirstName(i) == <<"l", DigitChars[i + 1]>>

SecondName(i) == <<"m", DigitChars[i + 1]>>

\* line i of a source, of the given kind
LineOf(kind, i) ==
  CASE kind = "blank" -> <<" ">>
    [] kind = "comment" -> <<"#", " ", "c">>
    [] kind = "label" -> FirstName(i) \o <<":">>
    [] kind = "labelled" -> FirstName(i) \o <<":", " ">> \o PlainLine
    [] kind = "plain" -> PlainLine
    [] kind = "twoLabels" -> FirstName(i) \o <<":", " ">> \o SecondName(i) \o <<":">>
    [] kind = "trailingColon" -> PlainLine \o <<" ", ":">>

\* the number of lines before the last one
SourceLines == 3

\* the last line of every source:  end: HLT
LastLine == <<"e", "n", "d", ":", " ", "H", "L", "T">>

\* the source whose line i is of kind kinds[i], followed by the last line
RECURSIVE SourceFrom(_, _)
SourceFrom(kinds, i) ==
  IF i > Len(kinds) THEN LastLine
  ELSE LineOf(kinds[i], i) \o <<"\n">> \o SourceFrom(kinds, i + 1)

\* parser.parse of the source, and the label table it built
ParseSource(kinds) ==
  /\ parsed = None
  /\ parsed' = [kinds |-> kinds,
                result |-> parse(SourceFrom(kinds, 1)),
                labels |-> labelsOf(SourceFrom(kinds, 1))]
  /\ UNCHANGED <<controllerVars, call, machineVars>>

SourceNext == \E kinds \in [1..SourceLines -> LineKinds] : ParseSource(kinds)

SpecSource == Init /\ [][SourceNext]_vars

\* a source has been parsed
SourceDone == "kinds" \in DOMAIN parsed

\* the labels that begin line i
LabelsOn(kinds, i) ==
  IF i > Len(kinds) THEN {"end"}
  ELSE IF kinds[i] \in {"label", "labelled", "twoLabels"}
    THEN {Join(FirstName(i))}
  ELSE {}

\* the number of instruction records of lines before line i: the index of
\* the record of line i when it has one, of the next record when one
\* follows, and the number of records otherwise
RecordsBefore(instructions, i) ==
  Cardinality({k \in DOMAIN instructions : instructions[k].lineNum < i})

\* C27: for every source parse accepts, each label of the label table is
\* bound to the index of the instruction record of its own line or, when the
\* line holds no instruction, of the next record (the number of records when
\* none follows), whatever blank, comment, label-only and colon-containing
\* lines precede it; record k of the result has index k.
C27_LabelsNameRecords ==
  (SourceDone /\ ~parsed.result.threw) =>
    /\ \A k \in DOMAIN parsed.result.value : parsed.result.value[k].index = k - 1
    /\ \A i \in 1..(SourceLines + 1) :
         \A name \in LabelsOn(parsed.kinds, i) :
           /\ name \in DOMAIN parsed.labels
           /\ parsed.labels[name] = RecordsBefore(parsed.result.value, i)

\* the same for the sources without a line that has a colon and no
\* instruction after its first label
C27_PlainLabelsNameRecords ==
  (/\ SourceDone
   /\ \A i \in 1..SourceLines : parsed.kinds[i] \notin {"twoLabels", "trailingColon"}) =>
    C27_LabelsNameRecords

(***************************************************************************)
(* Properties of decode.                                                   *)
(***************************************************************************)
\* the call was given a branch or JAL record
JumpRecord(c) ==
  /\ "instruction" \in DOMAIN c
  /\ c.instruction.format \in {"SB", "UJ"}

\* the register indices of a branch or JAL record are those of registers
ValidRegisters(instruction) ==
  \A field \in {"rd", "rs1", "rs2"} \cap DOMAIN instruction :
    instruction[field] \in 0..31

\* C31: decode fails for every branch or JAL record whose imm is odd,
\* positive or negative, and nothing is executed; it succeeds for every such
\* record whose imm is even and in the range of its format, with valid
\* register indices.
C31_OddOffsetsFail ==
  JumpRecord(call) =>
    /\ call.instruction.imm % 2 = 1 =>
         /\ Decoded(call).threw
         /\ call.threw
         /\ machine = call.before
    /\ (/\ call.instruction.imm % 2 = 0
        /\ Fits(call.instruction.imm, ImmediateBits[call.instruction.format])
        /\ ValidRegisters(call.instruction)) =>
         /\ ~Decoded(call).threw
         /\ Decoded(call).value.imm = call.instruction.imm

\* BGEU x1, x2, -4095: the least odd offset of a branch is not decoded
C31_Witness ==
  /\ JumpRecord(call)
  /\ call.instruction.opcode = "BGEU"
  /\ call.instruction.imm = -4095
  /\ Decoded(call).threw
  /\ call.threw

\* the registers, memory, PC and halted flag of two state objects are equal
SameMachineState(a, b) ==
  /\ a.registers = b.registers
  /\ a.memory = b.memory
  /\ a.pc = b.pc
  /\ a.halted = b.halted

\* C32: decode modifies neither the record it is given nor the machine
\* state, and decoding the record again gives an equal decoded instruction:
\* after a step of Run or Step that decoded an instruction the program is
\* the one the step began with, and during and at the end of a Run it is
\* the program parse returned.
C32_DecodeIsPure ==
  [][/\ ((RunLoop \/ Step) /\ call' # None) =>
          /\ simulatorState'.instructions = call'.before.instructions
          /\ decode(InstructionAt(simulatorState'.instructions, call'.before.pc))
               = decode(call'.instruction)
          /\ Decoded(call').threw => SameMachineState(simulatorState', call'.before)
     /\ running' => simulatorState'.instructions = Parse(request'.code).value
     /\ RunRespond => simulatorState'.instructions = Parse(request.code).value]_vars

\* a Run that has executed its third instruction
C32_Witness ==
  /\ running
  /\ call # None /\ ~call.threw
  /\ call.before.pc = 2
  /\ call.before.instructions = simulatorState.instructions
  /\ simulatorState.instructions = Parse(request.code).value

\* C33: every instruction record parse gives is decoded with a type equal
\* to the format of the record, and execute does not answer an instruction
\* that was decoded with the error of an opcode it does not know.
C33_TypeIsFormat ==
  ("instruction" \in DOMAIN call /\ ~Decoded(call).threw) =>
    /\ Decoded(call).value.type = call.instruction.format
    /\ Decoded(call).value.format = call.instruction.format
    /\ call.threw =>
         execute(Decoded(call).value, call.before).error
           # "Execution not implemented"

\* AUIPC, of format U, decoded with type U and executed
C33_Witness ==
  /\ "instruction" \in DOMAIN call
  /\ call.instruction.opcode = "AUIPC"
  /\ call.instruction.format = "U"
  /\ ~Decoded(call).threw /\ Decoded(call).value.type = "U"
  /\ ~call.threw

\* C37: the instruction a Step executes is the record at index PC of the
\* program parse gives for the source text of that Step request, also when
\* the request carries no state object and follows a Run or a Step for
\* another source text.
C37_StepExecutesItsSource ==
  [][(Step /\ call' # None) =>
       /\ ~Parse(request.code).threw
       /\ call'.instruction =
            InstructionAt(Parse(request.code).value, call'.before.pc)]_vars

\* the same for the Steps whose state object holds no instructions when the
\* request arrives
C37_FreshStepExecutesItsSource ==
  [][(/\ Step /\ call' # None
      /\ Adopted(simulatorState, request).instructions = <<>>) =>
       /\ ~Parse(request.code).threw
       /\ call'.instruction =
            InstructionAt(Parse(request.code).value, call'.before.pc)]_vars

\* the request is a Step that threads the state of the last success
\* response, as handleStep builds it or as it came
ThreadsReturnedState ==
  /\ request # None /\ request.kind = "step"
  /\ app.snapshot
  /\ "currentState" \in DOMAIN request
  /\ request.currentState \in {FrontendState(app), ReturnedState(app)}

\* C39: memory persists across Steps.  A load executed by a Step that
\* threads the returned state reads, at each of its addresses, the byte the
\* returned state holds there: the byte an earlier Step stored and no later
\* store has overwritten.
C39_MemoryPersists ==
  [][(/\ ThreadsReturnedState
      /\ Step
      /\ Executes(call', LoadOpcodes) /\ ~call'.threw) =>
       \A addr \in Address(call')..(Address(call') + Width(call') - 1) :
         Index(call'.before.memory, addr) = Index(app.memory, addr)]_vars

(***************************************************************************)
(* A jump or AUIPC followed by a return through the register it wrote.    *)
(***************************************************************************)
\* the lines of the instructions
ReturnLines ==
  {
    \* JAL x1, 8
    <<"J", "A", "L", " ", "x", "1", ",", " ", "8">>,
    \* JAL x5, -8
    <<"J", "A", "L", " ", "x", "5", ",", " ", "-", "8">>,
    \* AUIPC x1, 0
    <<"A", "U", "I", "P", "C", " ", "x", "1", ",", " ", "0">>,
    \* AUIPC x5, 0
    <<"A", "U", "I", "P", "C", " ", "x", "5", ",", " ", "0">>,
    \* JALR x0, x1, 0
    <<"J", "A", "L", "R", " ", "x", "0", ",", " ", "x", "1", ",", " ", "0">>,
    \* JALR x0, x5, 0
    <<"J", "A", "L", "R", " ", "x", "0", ",", " ", "x", "5", ",", " ", "0">>
  }

ReturnInstructions ==
  {parseInstruction(line, 0, 1, NoCells).value : line \in ReturnLines}

\* the PC of the first instruction: the index of an instruction of a
\* program of more than a thousand lines
ReturnPcs == {0, 5, 249, 250, 998, 999, 1024}

\* the state objects execute is called on
ReturnMachines ==
  {[m EXCEPT !.pc = p] : m \in {NewPlainState, NewSimulator}, p \in ReturnPcs}

ReturnInit ==
  /\ simulatorState = NewPlainState
  /\ request = None
  /\ response = None
  /\ app = NewApp
  /\ running = FALSE
  /\ call = None
  /\ machine \in ReturnMachines
  /\ calls = 0
  /\ restored = None
  /\ parsed = None

ReturnNext == \E instruction \in ReturnInstructions : Execute(instruction)

SpecReturn == ReturnInit /\ [][ReturnNext]_vars

\* the call executed an instruction of these opcodes that wrote a register
\* other than x0
Linked(c, ops) ==
  /\ Executes(c, ops) /\ ~c.threw
  /\ Decoded(c).value.rd # 0

\* the call executed JALR x0, rd, 0
ReturnsThrough(c, rd) ==
  /\ Executes(c, {"JALR"}) /\ ~c.threw
  /\ Decoded(c).value.rd = 0
  /\ Decoded(c).value.rs1 = rd
  /\ Decoded(c).value.imm = 0

\* C34: a JAL with destination rd, not x0, at any instruction index i,
\* followed by JALR x0, rd, 0 while rd holds what the JAL wrote, leaves PC at
\* i + 1.
C34_CallAndReturn ==
  [][(/\ Linked(call, {"JAL"})
      /\ ReturnsThrough(call', Decoded(call).value.rd)) =>
       machine'.pc = call.before.pc + 1]_vars

\* the same for the indices whose return address is below 1000
C34_CallAndReturnBelowThreshold ==
  [][(/\ Linked(call, {"JAL"})
      /\ call.before.pc + 1 < 1000
      /\ ReturnsThrough(call', Decoded(call).value.rd)) =>
       machine'.pc = call.before.pc + 1]_vars

\* C35: an AUIPC rd, 0 with rd not x0 at any instruction index i, followed
\* by JALR x0, rd, 0 while rd holds what the AUIPC wrote, leaves PC at i.
C35_AddressOfInstruction ==
  [][(/\ Linked(call, {"AUIPC"})
      /\ Decoded(call).value.imm = 0
      /\ ReturnsThrough(call', Decoded(call).value.rd)) =>
       machine'.pc = call.before.pc]_vars

\* the same for the indices whose byte address is 0 or at least 1000
C35_AddressOfInstructionAboveThreshold ==
  [][(/\ Linked(call, {"AUIPC"})
      /\ Decoded(call).value.imm = 0
      /\ call.before.pc = 0 \/ 4 * call.before.pc >= 1000
      /\ ReturnsThrough(call', Decoded(call).value.rd)) =>
       machine'.pc = call.before.pc]_vars

(***************************************************************************)
(* The two kinds of state object of Executor.execute.                      *)
(***************************************************************************)
\* the plain state object equal to a Simulator: the same registers, PC and
\* halted flag, and the bytes of the Simulator's buffer as its memory array
PlainTwin(this) ==
  [NewPlainState EXCEPT !.registers = this.registers,
                        !.pc = this.pc,
                        !.halted = this.halted,
                        !.memory.cells = this.memory.cells]

\* the registers, PC, halted flag and memory bytes of a plain state object
\* and of a Simulator are equal
SameAsSimulator(state, this) ==
  /\ state.registers = this.registers
  /\ state.pc = this.pc
  /\ state.halted = this.halted
  /\ \A addr \in 0..(PlainMemorySize - 1) :
       Index(state.memory, addr) = Cell(this.memory, addr)

\* execute on the plain twin r agrees with the call on the Simulator
Agrees(c, r) ==
  /\ r.threw = c.threw
  /\ ~c.threw => SameAsSimulator(r.value, machine)

\* execute was called with a Simulator
OnSimulator(c) ==
  /\ "instruction" \in DOMAIN c
  /\ "direct" \notin DOMAIN c
  /\ ~Decoded(c).threw
  /\ c.before.kind = "Simulator"

\* C36: for every decoded instruction, execute on a Simulator and execute on
\* the plain state object equal to it fail together or succeed together with
\* equal registers, memory bytes, PC and halted flag.
C36_BackendsAgree ==
  OnSimulator(call) =>
    /\ SameAsSimulator(PlainTwin(call.before), call.before)
    /\ Agrees(call, execute(Decoded(call).value, PlainTwin(call.before)))

\* the same for the instructions other than the loads and stores
C36_BackendsAgreeOutsideMemory ==
  (/\ OnSimulator(call)
   /\ Decoded(call).value.opcode \notin StoreOpcodes \cup LoadOpcodes) =>
    C36_BackendsAgree

(***************************************************************************)
(* What one instruction leaves alone.                                      *)
(***************************************************************************)
\* the registers an instruction may write: rd, unless it is x0
Destination(decoded) ==
  IF Has(decoded, "rd") THEN {decoded.rd} \ {0} ELSE {}

\* the addresses a call may write: the 1, 2 or 4 bytes of its store
StoredTo(c) ==
  IF Decoded(c).value.opcode \in StoreOpcodes
    THEN Address(c)..(Address(c) + Width(c) - 1)
    ELSE {}

\* the addresses at which a memory object holds something
Held(memory) == DOMAIN memory.cells \cup DOMAIN memory.props

\* what a memory object holds at an address, as an element or byte and as a
\* property
HeldAt(memory, addr) ==
  <<Cell(memory, addr),
    IF addr \in DOMAIN memory.props THEN memory.props[addr] ELSE 0>>

\* C38: one instruction changes at most register rd, never register 0, PC,
\* the halted flag if it is HLT and, if it is SB, SH or SW, the 1, 2 or 4
\* memory bytes from the effective address on; every other register and
\* memory byte keeps its value, and an instruction that is not a store
\* leaves memory as it is.
C38_FrameOfInstruction ==
  (Executes(call, AllOpcodes) /\ ~call.threw) =>
    /\ \A r \in (0..31) \ Destination(Decoded(call).value) :
         machine.registers[r] = call.before.registers[r]
    /\ DOMAIN machine.registers = DOMAIN call.before.registers
    /\ machine.halted # call.before.halted => Decoded(call).value.opcode = "HLT"
    /\ \A addr \in (Held(machine.memory) \cup Held(call.before.memory))
                     \ StoredTo(call) :
         HeldAt(machine.memory, addr) = HeldAt(call.before.memory, addr)
    /\ Decoded(call).value.opcode \notin StoreOpcodes =>
         machine.memory = call.before.memory

\* SB x1, x0, 8 with x1 = -8 on the plain state: byte 8 is 248, and bytes 7
\* and 9 are the 243 and 241 they were
C38_Witness ==
  /\ Executes(call, {"SB"}) /\ ~call.threw
  /\ call.before.kind = "plain"
  /\ Reg(call.before, 1) = -8
  /\ Address(call) = 8
  /\ Index(call.before.memory, 8) = 242
  /\ Index(machine.memory, 8) = 248
  /\ Index(machine.memory, 7) = 243 /\ Index(machine.memory, 9) = 241
====
